---- MODULE Spec2Model ----
(***************************************************************************)
(* Grumble: entity manager (put / get / delete / query on one manager and  *)
(* its cache), the PostgreSQL adapter's transaction nesting, the kind      *)
(* registry under concurrent first use, and the rendering of a query to    *)
(* SQL text plus parameter list.                                           *)
(*                                                                         *)
(* Execution of a query with joins, aggregates and a GroupBy table.        *)
(*                                                                         *)
(* The specifications of the module:                                   *)
(*   Spec       entity manager and adapter (single-threaded, call stack)   *)
(*   SpecTX     adapter: connection and transaction handling under TX      *)
(*   SpecKind   type registry, two goroutines                              *)
(*   SpecQuery  query builder, template rendering, placeholder rewriting   *)
(*   SpecExec   query builder with grouping, Execute and the row scanners  *)
(*   SpecKey    keys: CreateKey, Chain, ParseKey                           *)
(*   SpecReg    registration of struct types: base kinds and columns       *)
(*   SpecTable  schema reconciler: Reconcile and Sync of one table         *)
(*   SpecRef    the References condition: WhereClause and Values           *)
(*   SpecAdopt  Adopt: children put under a parent                         *)
(***************************************************************************)
EXTENDS Integers, Sequences, FiniteSets, TLC

\* ------------------------------------------------------------------------
\* Bounds of the model
\* ------------------------------------------------------------------------

\* fields one struct type declares
MaxFields == 2

\* parents and child objects of the Adopt calls
NumParents == 2
NumChildren == 2

\* Reconcile calls made in a row with one desired table, and the indexes
\* on several columns one desired table declares
MaxRuns == 2
MaxIndexes == 1

\* levels of a key, and the largest Ident of a level
MaxKeyDepth == 2
MaxKeyId == 10

\* joins a query holds at once, and AddJoin calls made on it
MaxJoins == 3
MaxAdded == 3
\* aggregates on one table
MaxAggs == 1
\* rows one Execute delivers
MaxRows == 1

\* number of in-memory entity objects (handles) that can be alive at once
NumHandles == 2
\* largest "_id" the table's serial hands out
MaxId == 1
\* deepest nesting of TX calls
MaxDepth == 2
\* goroutines asking the registry for kinds
NumThreads == 2
\* entity types that can be registered
NumTypes == 2
\* conditions one query carries, over all its tables
MaxConds == 2
\* joins of one query, and sub-queries of one query
MaxTables == 1
\* kinds derived from the kind of a table
MaxDerived == 1
\* keys a References condition (or values a SimpleCondition) carries
MaxRefs == 2

\* joins of the query whose aliases are followed, and reference columns of
\* its kind
MaxAliasJoins == 4
MaxRefCols == 2

\* columns of a kind, and columns and indexes of a table description with
\* primary keys
MaxKindColumns == 1
MaxDescColumns == 2
MaxDescIndexes == 2

\* reference columns of a result row, ids of the entities they name, and
\* levels of derivation below the kind a reference field declares
NumRefFields == 2
MaxWireId == 2
MaxDerive == 1

Handles == 1..NumHandles
Ids == 1..MaxId

\* the values of the persisted column: its zero value and one other
Vals == {0, 1}

\* no entity / no row / nothing cached
NoHandle == 0
NoRow == -1

\* ------------------------------------------------------------------------
\* State of the entity manager and its adapter
\* ------------------------------------------------------------------------
VARIABLES
    ents,      \* handle -> [alloc, id, populated, val]: the Key fields of an
               \*   entity object and its one persisted column
    db,        \* id -> value of the row's column, or NoRow
    nextId,    \* next value of the table's serial "_id"
    cache,     \* EntityCache.cache[kind]: id -> handle, or NoHandle
    conn,      \* pg.conn[admin] is present
    pgtx,      \* pg.tx[conn] is present
    openTx,    \* number of sql.Tx begun and neither committed nor rolled back
    stack,     \* call stack of TX-wrapped operations, innermost last
    done,      \* what the step just taken returned to its caller
    got,       \* id -> handle the last Get(kind, id) returned (history)
    lastPut    \* the Put that just succeeded, until the entity is touched again

emVars == <<ents, db, nextId, cache, conn, pgtx, openTx, stack, done, got, lastPut>>

\* State of the kind registry and of the goroutines calling getKindForType
VARIABLES
    RegistryByType,  \* type -> descriptor, or NoKind
    RegistryByKind,  \* kind name -> descriptor, or NoKind; the name is derived
                     \*   from the type (package path + type name)
    kindType,        \* descriptor -> the type it was created for, 0 if not allocated
    gpc,             \* goroutine -> where it is in getKindForType / createKind
    gtype,           \* goroutine -> the type t it asked for
    gkind,           \* goroutine -> its local variable kind
    gret,            \* goroutine -> type -> descriptor last returned to it
    fatal            \* the runtime stopped the program ("concurrent map writes")

kindVars == <<RegistryByType, RegistryByKind, kindType, gpc, gtype, gkind, gret, fatal>>

\* State of the query builder
VARIABLES
    query,     \* the Query being built: root table, Joins, SubQueries,
               \*   QueryConditions
    sql        \* what Query.SQL() returned last: text and parameter list

queryVars == <<query, sql>>

\* State of a query that is built with joins, aggregates and GroupBy marks
\* and then executed
VARIABLES
    xq,        \* the Query: GroupBy and Aggregates of the root table, Joins
    xres       \* what the call just made on the query returned

execVars == <<xq, xres>>

\* State of a key that is built, formatted and parsed back
VARIABLES
    key,       \* the Key: its levels (kind name, Ident) from the leaf up
    chain,     \* what key.Chain() returned, as a string of characters
    parsed     \* what ParseKey(chain) returned

keyVars == <<key, chain, parsed>>

\* State of the registration of struct types as kinds (one goroutine)
VARIABLES
    decl,      \* struct type -> its fields as declared in the program text
    running,   \* the program runs: the declarations are fixed
    reg,       \* RegistryByType: struct type -> its Kind, or not registered
    regres     \* what the last call of getKindForType did

regVars == <<decl, running, reg, regres>>

\* Schema reconciler: the physical table in the database, the desired
\* SQLTable built with AddColumn / AddIndex, the SQLTable last read back by
\* Sync, the physical table before the last Reconcile, the number of
\* Reconcile calls made in a row with the same desired table, and whether
\* one of these calls returned an error, and the statements the last
\* Reconcile sent to the database
VARIABLES
  phys,
  table,
  readBack,
  before,
  runs,
  rerr,
  stmts
tableVars == <<phys, table, readBack, before, runs, rerr, stmts>>

\* One References condition: its fields, the clause its last WhereClause
\* returned and the values its last Values call appended
VARIABLES
  rcond,
  rclause,
  rvalues
refVars == <<rcond, rclause, rvalues>>

\* Adopt: the child objects, their rows and the table's serial, and the
\* Adopt call just made
VARIABLES
  fam,
  adopted
adoptVars == <<fam, adopted>>

\* The aliases of the joins of one query, in the order of Query.Joins, and
\* the number of reference columns of the query's kind
VARIABLES
  aliases,
  refCols
aliasVars == <<aliases, refCols>>

\* The table description of one kind: the SQLTable, the columns of the kind,
\* and what the last call on the description did
VARIABLES
  desc,
  dkind,
  dres
descVars == <<desc, dkind, dres>>

\* One result row with reference columns: the columns as the database has
\* them, and what Scanners.Build made of the row
VARIABLES
  wrow,
  wres
wireVars == <<wrow, wres>>

\* the variables an action of one part leaves alone
notEM == <<kindVars, queryVars, execVars, keyVars, regVars, tableVars, refVars, adoptVars, aliasVars, descVars, wireVars>>
notKind == <<emVars, queryVars, execVars, keyVars, regVars, tableVars, refVars, adoptVars, aliasVars, descVars, wireVars>>
notQuery == <<emVars, kindVars, execVars, keyVars, regVars, tableVars, refVars, adoptVars, aliasVars, descVars, wireVars>>
notExec == <<emVars, kindVars, queryVars, keyVars, regVars, tableVars, refVars, adoptVars, aliasVars, descVars, wireVars>>
notKey == <<emVars, kindVars, queryVars, execVars, regVars, tableVars, refVars, adoptVars, aliasVars, descVars, wireVars>>
notReg == <<emVars, kindVars, queryVars, execVars, keyVars, tableVars, refVars, adoptVars, aliasVars, descVars, wireVars>>
notTable == <<emVars, kindVars, queryVars, execVars, keyVars, regVars, refVars, adoptVars, aliasVars, descVars, wireVars>>
notRef == <<emVars, kindVars, queryVars, execVars, keyVars, regVars, tableVars, adoptVars, aliasVars, descVars, wireVars>>
notAdopt == <<emVars, kindVars, queryVars, execVars, keyVars, regVars, tableVars, refVars, aliasVars, descVars, wireVars>>
notAlias == <<emVars, kindVars, queryVars, execVars, keyVars, regVars, tableVars, refVars, adoptVars, descVars, wireVars>>
notDesc == <<emVars, kindVars, queryVars, execVars, keyVars, regVars, tableVars, refVars, adoptVars, aliasVars, wireVars>>
notWire == <<emVars, kindVars, queryVars, execVars, keyVars, regVars, tableVars, refVars, adoptVars, aliasVars, descVars>>

NoEnt ==
    [alloc |-> FALSE, id |-> 0, populated |-> FALSE, val |-> 0,
     tomb |-> FALSE]

NoDone == [op |-> "none", h |-> NoHandle, id |-> 0, err |-> FALSE, ret |-> NoHandle,
           trace |-> <<>>, txActive |-> FALSE, wasNew |-> FALSE, wasPopulated |-> FALSE,
           workErr |-> FALSE, depth |-> 0, prev |-> NoHandle, cacheSame |-> TRUE,
           icpt |-> {}, owner |-> FALSE, wasTomb |-> FALSE,
           panicked |-> FALSE]

NoPut == [h |-> NoHandle, id |-> 0, wasNew |-> FALSE]

InitEM ==
    /\ ents = [h \in Handles |-> NoEnt]
    /\ db = [i \in Ids |-> NoRow]
    /\ nextId = 1
    /\ cache = [i \in Ids |-> NoHandle]
    /\ conn = FALSE
    /\ pgtx = FALSE
    /\ openTx = 0
    /\ stack = <<>>
    /\ done = NoDone
    /\ got = [i \in Ids |-> NoHandle]
    /\ lastPut = NoPut

\* ------------------------------------------------------------------------
\* Call stack
\* ------------------------------------------------------------------------

\* The interceptor interfaces an entity's type may implement
\* (PutInterceptor, InsertInterceptor, DeleteInterceptor).
Interceptors == {"put", "insert", "delete"}

Top == stack[Len(stack)]

SetTop(f) == [stack EXCEPT ![Len(stack)] = f]

\* the work function of a TX call is running
InWork == stack # <<>> /\ Top.op = "tx" /\ Top.pc = "work"

\* TX can be called from outside (empty stack) or from the work function of
\* a TX call that is running.
CanNest == stack = <<>> \/ (InWork /\ Len(stack) < MaxDepth)

\* The manager's operations are called from outside or from the work
\* function of an outermost TX call.
CanCall == stack = <<>> \/ (InWork /\ Len(stack) = 1)

\* the locals of a call that is about to enter doWork
Frame(op, h, id, icpt, c0) ==
    [op |-> op, h |-> h, id |-> id, pc |-> "call", icpt |-> icpt,
     leaveOpen |-> FALSE, txActive |-> FALSE, owner |-> FALSE,
     err |-> FALSE, workErr |-> FALSE, trace |-> <<>>, ret |-> NoHandle,
     wasNew |-> ~(id > 0), wasPopulated |-> FALSE, cache0 |-> c0,
     wasTomb |-> IF h = NoHandle THEN FALSE ELSE ents[h].tomb,
     panicked |-> FALSE]

Push(f) == stack' = Append(stack, f)

Log(f, ev) == [f EXCEPT !.trace = Append(@, ev)]

\* the work function returned err: nothing more of it runs
Fail(f) == [f EXCEPT !.err = TRUE, !.workErr = TRUE, !.pc = "commit"]

Finish(f) == [f EXCEPT !.pc = "commit"]

\* ------------------------------------------------------------------------
\* PostgreSQLAdapter: BeginTX, CommitTX, RollbackTX, doWork, runTX
\* ------------------------------------------------------------------------

\* BeginTX: nothing when pg.tx[conn] is set; else conn.Begin(), which can fail
BeginTX(ok) ==
    IF pgtx THEN UNCHANGED <<pgtx, openTx>>
    ELSE IF ok THEN pgtx' = TRUE /\ openTx' = openTx + 1
    ELSE UNCHANGED <<pgtx, openTx>>

\* CommitTX / RollbackTX: nothing when pg.tx[conn] is unset; else the Tx is
\* ended (whatever Commit/Rollback returns) and removed from pg.tx
EndTX ==
    IF pgtx THEN pgtx' = FALSE /\ openTx' = openTx - 1
    ELSE UNCHANGED <<pgtx, openTx>>

\* Put, after the pre-put hook: "if e.Id() > 0 { update } else { insert ... }"
PutBranch(f) ==
    IF ents[f.h].id > 0 THEN "update"
    ELSE IF "insert" \in f.icpt THEN "OnInsert" ELSE "insert"

\* where the work function of an operation starts
FirstPc(f) ==
    CASE f.op = "tx" -> "work"
      [] f.op = "put" -> IF "put" \in f.icpt THEN "OnPut" ELSE PutBranch(f)
      [] f.op = "delete" ->
            IF ents[f.h].id > 0
            THEN IF "delete" \in f.icpt THEN "OnDelete" ELSE "del"
            ELSE "commit"
      [] OTHER -> "select"

\* runTX without the test of pg.tx[db]: every call begins a transaction
runTXEnterNoTest(f, beginOk) ==
    LET g == [f EXCEPT !.leaveOpen = conn, !.txActive = pgtx] IN
    /\ conn' = TRUE
    /\ pgtx' = TRUE
    /\ openTx' = openTx + 1
    /\ Push([Log(g, "BEGIN") EXCEPT !.owner = TRUE, !.pc = FirstPc(g)])

\* runTX inside doWork, up to the call of the work function:
\* doWork opens the connection when there is none and remembers to close it;
\* runTX runs the work inline when pg.tx[db] is present, else begins a
\* transaction and registers the deferred commit/rollback.
runTXEnter(f, beginOk) ==
    LET g == [f EXCEPT !.leaveOpen = conn, !.txActive = pgtx] IN
    /\ conn' = TRUE
    /\ IF pgtx
       THEN /\ UNCHANGED <<pgtx, openTx>>
            /\ Push([g EXCEPT !.pc = FirstPc(g)])
       ELSE /\ BeginTX(beginOk)
            /\ IF beginOk
               THEN Push([Log(g, "BEGIN") EXCEPT !.owner = TRUE, !.pc = FirstPc(g)])
               ELSE Push([Log(g, "BEGIN") EXCEPT !.err = TRUE, !.pc = "commit"])

\* a call of TX, or of an operation that runs under TX, with frame f
Call(f) == \E beginOk \in (IF pgtx THEN {TRUE} ELSE BOOLEAN) : runTXEnter(f, beginOk)

\* what the operation hands back when its frame is popped
Result(f) ==
    [op |-> f.op, h |-> f.h, id |-> f.id, err |-> f.err, ret |-> f.ret,
     trace |-> f.trace, txActive |-> f.txActive, wasNew |-> f.wasNew,
     wasPopulated |-> f.wasPopulated, workErr |-> f.workErr,
     depth |-> Len(stack),
     prev |-> IF f.op = "get" THEN got[f.id] ELSE NoHandle,
     cacheSame |-> IF f.op = "delete" THEN cache = f.cache0 ELSE TRUE,
     icpt |-> f.icpt, owner |-> f.owner, wasTomb |-> f.wasTomb,
     panicked |-> f.panicked]

\* a panic leaves the call: the work function of the caller, if there is
\* one, is left by the same panic
Unwind(st, panicked) ==
    IF panicked /\ st # <<>>
    THEN [st EXCEPT ![Len(st)] = [@ EXCEPT !.panicked = TRUE, !.pc = "commit"]]
    ELSE st

\* runTX's deferred function (commit when the work returned nil, roll back
\* otherwise), then doWork's deferred CloseConnection, then the return.
\* Statements are issued on the *sql.DB handed to the work function, so the
\* rows they wrote stay as they are whichever way the transaction ends.
\* The deferred functions also run when the work function panicked; err is
\* nil then.  (tomb records that a Delete of the entity has succeeded.)
runTXExit(f, commitOk) ==
    LET g == IF ~f.owner THEN f
             ELSE IF ~f.err
                  THEN [Log(f, "COMMIT") EXCEPT !.err = ~commitOk]
                  ELSE Log(f, "ROLLBACK")
    IN
    /\ IF f.owner \/ ~f.leaveOpen THEN EndTX ELSE UNCHANGED <<pgtx, openTx>>
    /\ conn' = IF f.leaveOpen THEN conn ELSE FALSE
    /\ stack' = Unwind(SubSeq(stack, 1, Len(stack) - 1), f.panicked)
    /\ done' = Result(g)
    /\ ents' = IF g.op = "delete" /\ ~g.err /\ g.id > 0
              THEN [ents EXCEPT ![g.h].tomb = TRUE] ELSE ents
    /\ got' = IF g.op = "get" /\ ~g.err /\ g.ret # NoHandle
              THEN [got EXCEPT ![g.id] = g.ret] ELSE got
    /\ lastPut' = IF g.op = "put" /\ ~g.err
                  THEN [h |-> g.h, id |-> ents[g.h].id, wasNew |-> g.wasNew]
                  ELSE IF g.op = "get" THEN lastPut ELSE NoPut

Return ==
    /\ stack # <<>>
    /\ Top.pc = "commit"
    /\ \E commitOk \in BOOLEAN : runTXExit(Top, commitOk)
    /\ UNCHANGED <<db, nextId, cache>>
    /\ UNCHANGED notEM

\* PostgreSQLAdapter.TX(work) with a caller-supplied work function
TX ==
    /\ CanNest
    /\ Call(Frame("tx", NoHandle, 0, {}, <<>>))
    /\ done' = NoDone
    /\ lastPut' = NoPut
    /\ UNCHANGED <<ents, db, nextId, cache, got>>
    /\ UNCHANGED notEM

\* the caller-supplied work function returns nil or an error
WorkReturn ==
    /\ stack # <<>>
    /\ Top.op = "tx"
    /\ Top.pc = "work"
    /\ \E ok \in BOOLEAN :
          stack' = SetTop(IF ok THEN Finish(Top) ELSE Fail(Top))
    /\ done' = NoDone
    /\ lastPut' = NoPut
    /\ UNCHANGED <<ents, db, nextId, cache, conn, pgtx, openTx, got>>
    /\ UNCHANGED notEM

\* the caller-supplied work function panics
WorkPanic ==
    /\ stack # <<>>
    /\ Top.op = "tx"
    /\ Top.pc = "work"
    /\ stack' = SetTop([Top EXCEPT !.panicked = TRUE, !.pc = "commit"])
    /\ done' = NoDone
    /\ lastPut' = NoPut
    /\ UNCHANGED <<ents, db, nextId, cache, conn, pgtx, openTx, got>>
    /\ UNCHANGED notEM

\* GetConnection() / Close() called by the application between operations
GetConnection ==
    /\ stack = <<>>
    /\ ~conn
    /\ conn' = TRUE
    /\ done' = NoDone
    /\ lastPut' = NoPut
    /\ UNCHANGED <<ents, db, nextId, cache, pgtx, openTx, stack, got>>
    /\ UNCHANGED notEM

Close ==
    /\ stack = <<>>
    /\ conn
    /\ EndTX
    /\ conn' = FALSE
    /\ done' = NoDone
    /\ lastPut' = NoPut
    /\ UNCHANGED <<ents, db, nextId, cache, stack, got>>
    /\ UNCHANGED notEM

\* Begin() called by the application between operations: getConnection, then
\* BeginTX
Begin ==
    /\ stack = <<>>
    /\ \E ok \in BOOLEAN : BeginTX(ok)
    /\ conn' = TRUE
    /\ done' = NoDone
    /\ lastPut' = NoPut
    /\ UNCHANGED <<ents, db, nextId, cache, stack, got>>
    /\ UNCHANGED notEM

\* Commit() or Rollback() called by the application between operations:
\* getConnection, then CommitTX / RollbackTX
Commit ==
    /\ stack = <<>>
    /\ EndTX
    /\ conn' = TRUE
    /\ done' = NoDone
    /\ lastPut' = NoPut
    /\ UNCHANGED <<ents, db, nextId, cache, stack, got>>
    /\ UNCHANGED notEM

\* ------------------------------------------------------------------------
\* Entities in memory
\* ------------------------------------------------------------------------

FreeHandles == {h \in Handles : ~ents[h].alloc}

\* the object the next allocation yields
NewHandle == CHOOSE h \in FreeHandles : \A g \in FreeHandles : h <= g

\* ids a caller can pass to Make: zero (New) and the table's ids
MakeIds == 0..MaxId

\* Kind.MakeValue / EntityManager.Make: a new object with the given id, not
\* populated, fields at their zero values
MakeEntity(id) ==
    [alloc |-> TRUE, id |-> id, populated |-> FALSE, val |-> 0,
     tomb |-> FALSE]

\* EntityManager.Make(kind, parent, id) and New (id = 0), called by the application
Make ==
    /\ stack = <<>>
    /\ FreeHandles # {}
    /\ \E id \in MakeIds : ents' = [ents EXCEPT ![NewHandle] = MakeEntity(id)]
    /\ done' = NoDone
    /\ lastPut' = NoPut
    /\ UNCHANGED <<db, nextId, cache, conn, pgtx, openTx, stack, got>>
    /\ UNCHANGED notEM

\* the application assigns the entity's field
Modify ==
    /\ stack = <<>>
    /\ \E h \in Handles, v \in Vals :
          /\ ents[h].alloc
          /\ ents[h].val # v
          /\ ents' = [ents EXCEPT ![h].val = v]
    /\ done' = NoDone
    /\ lastPut' = NoPut
    /\ UNCHANGED <<db, nextId, cache, conn, pgtx, openTx, stack, got>>
    /\ UNCHANGED notEM

\* ------------------------------------------------------------------------
\* EntityCache
\* ------------------------------------------------------------------------

\* EntityCache.Put: m[e.Id()] = e
CachePut(c, h) == IF ents[h].id \in Ids THEN [c EXCEPT ![ents[h].id] = h] ELSE c

\* EntityCache.Del: delete(m, e.Id())
CacheDel(c, h) == IF ents[h].id \in Ids THEN [c EXCEPT ![ents[h].id] = NoHandle] ELSE c

\* EntityCache.Has
CacheHas(id) == id \in Ids /\ cache[id] # NoHandle

\* EntityManager.Unstash(e), called by the application
Unstash ==
    /\ stack = <<>>
    /\ \E h \in Handles :
          /\ ents[h].alloc
          /\ cache' = CacheDel(cache, h)
          /\ got' = IF ents[h].id \in Ids THEN [got EXCEPT ![ents[h].id] = NoHandle] ELSE got
    /\ done' = NoDone
    /\ UNCHANGED <<ents, db, nextId, conn, pgtx, openTx, stack, lastPut>>
    /\ UNCHANGED notEM

\* ------------------------------------------------------------------------
\* EntityManager.Put
\* ------------------------------------------------------------------------

\* an interceptor hook ran and returned nil (ok) or an error
Hook(f, name, ok, next) ==
    IF ok THEN [Log(f, name) EXCEPT !.pc = next] ELSE Fail(Log(f, name))

\* Put without its post-put hook
PutTailNoHook(f) == "commit"

\* Put, after update or Stash: the post-put hook, if the type has one
PutTail(f) == IF "put" \in f.icpt THEN "AfterPut" ELSE "commit"

\* the interceptors of the entity's type that a Put of it can reach
PutInterceptors(h) ==
    IF ents[h].id > 0 THEN SUBSET {"put"} ELSE SUBSET {"put", "insert"}

\* EntityManager.Put(e): SetKind(e), then the work function under TX
Put ==
    /\ CanCall
    /\ \E h \in Handles :
          /\ ents[h].alloc
          /\ \E icpt \in PutInterceptors(h) : Call(Frame("put", h, ents[h].id, icpt, <<>>))
    /\ done' = NoDone
    /\ lastPut' = NoPut
    /\ UNCHANGED <<ents, db, nextId, cache, got>>
    /\ UNCHANGED notEM

Running(op, pc) == stack # <<>> /\ Top.op = op /\ Top.pc = pc

\* frame of the step: the entity and the database are left alone
StackStep(f) ==
    /\ stack' = SetTop(f)
    /\ done' = NoDone
    /\ lastPut' = NoPut
    /\ UNCHANGED <<ents, db, nextId, cache, conn, pgtx, openTx, got>>

\* putInterceptor.OnPut(), then the branch on e.Id()
OnPut ==
    /\ Running("put", "OnPut")
    /\ \E ok \in BOOLEAN : StackStep(Hook(Top, "OnPut", ok, PutBranch(Top)))
    /\ UNCHANGED notEM

\* update(e, conn): the populated test sets err and goes on; the error is
\* overwritten by the result of rendering the statement, and the UPDATE is
\* executed. An UPDATE that matches no row is no error.
update(f, ok) ==
    LET e == ents[f.h]
        g == [Log(f, "UPDATE") EXCEPT !.wasPopulated = e.populated] IN
    IF ok
    THEN /\ db' = IF e.id \in Ids /\ db[e.id] # NoRow THEN [db EXCEPT ![e.id] = e.val] ELSE db
         /\ stack' = SetTop([g EXCEPT !.pc = PutTail(g)])
    ELSE /\ db' = db
         /\ stack' = SetTop(Fail(g))

Update ==
    /\ Running("put", "update")
    /\ \E ok \in BOOLEAN : update(Top, ok)
    /\ done' = NoDone
    /\ lastPut' = NoPut
    /\ UNCHANGED <<ents, nextId, cache, conn, pgtx, openTx, got>>
    /\ UNCHANGED notEM

\* insertInterceptor.OnInsert()
OnInsert ==
    /\ Running("put", "OnInsert")
    /\ \E ok \in BOOLEAN : StackStep(Hook(Top, "OnInsert", ok, "insert"))
    /\ UNCHANGED notEM

\* insert without "e.Initialize(nil, id); e.SetPopulated()": the row is
\* written, the object keeps its zero id
insertNoInitialize(f, ok) ==
    LET g == Log(f, "INSERT") IN
    IF ok
    THEN /\ nextId <= MaxId
         /\ db' = [db EXCEPT ![nextId] = ents[f.h].val]
         /\ nextId' = nextId + 1
         /\ ents' = ents
         /\ stack' = SetTop([g EXCEPT !.pc = IF "insert" \in g.icpt THEN "AfterInsert" ELSE "stash"])
    ELSE /\ UNCHANGED <<db, nextId, ents>>
         /\ stack' = SetTop(Fail(g))

\* insert(e, conn): INSERT ... RETURNING "_id"; on success the id is assigned
\* (e.Initialize(nil, id)) and the populated flag set
insert(f, ok) ==
    LET g == Log(f, "INSERT") IN
    IF ok
    THEN /\ nextId <= MaxId
         /\ db' = [db EXCEPT ![nextId] = ents[f.h].val]
         /\ nextId' = nextId + 1
         /\ ents' = [ents EXCEPT ![f.h].id = nextId, ![f.h].populated = TRUE]
         /\ stack' = SetTop([g EXCEPT !.pc = IF "insert" \in g.icpt THEN "AfterInsert" ELSE "stash"])
    ELSE /\ UNCHANGED <<db, nextId, ents>>
         /\ stack' = SetTop(Fail(g))

Insert ==
    /\ Running("put", "insert")
    /\ \E ok \in BOOLEAN : insert(Top, ok)
    /\ done' = NoDone
    /\ lastPut' = NoPut
    /\ UNCHANGED <<cache, conn, pgtx, openTx, got>>
    /\ UNCHANGED notEM

\* insertInterceptor.AfterInsert()
AfterInsert ==
    /\ Running("put", "AfterInsert")
    /\ \E ok \in BOOLEAN : StackStep(Hook(Top, "AfterInsert", ok, "stash"))
    /\ UNCHANGED notEM

\* mgr.Stash(e) at the end of the insert branch
PutStash(f) ==
    /\ cache' = CachePut(cache, f.h)
    /\ stack' = SetTop([Log(f, "stash") EXCEPT !.pc = PutTail(f)])

StashNew ==
    /\ Running("put", "stash")
    /\ PutStash(Top)
    /\ done' = NoDone
    /\ lastPut' = NoPut
    /\ UNCHANGED <<ents, db, nextId, conn, pgtx, openTx, got>>
    /\ UNCHANGED notEM

\* putInterceptor.AfterPut()
AfterPut ==
    /\ Running("put", "AfterPut")
    /\ \E ok \in BOOLEAN : StackStep(Hook(Top, "AfterPut", ok, "commit"))
    /\ UNCHANGED notEM

\* ------------------------------------------------------------------------
\* EntityManager.Delete
\* ------------------------------------------------------------------------

\* EntityManager.Delete(e): the work function under TX; "delete was called
\* for the entity" ends what earlier Gets of its id promised
Delete ==
    /\ CanCall
    /\ \E h \in Handles, icpt \in SUBSET {"delete"} :
          /\ ents[h].alloc
          /\ Call(Frame("delete", h, ents[h].id, icpt, cache))
          /\ got' = IF ents[h].id \in Ids THEN [got EXCEPT ![ents[h].id] = NoHandle] ELSE got
    /\ done' = NoDone
    /\ lastPut' = NoPut
    /\ UNCHANGED <<ents, db, nextId, cache>>
    /\ UNCHANGED notEM

\* interceptor.OnDelete()
OnDelete ==
    /\ Running("delete", "OnDelete")
    /\ \E ok \in BOOLEAN : StackStep(Hook(Top, "OnDelete", ok, "del"))
    /\ UNCHANGED notEM

\* del(e, conn): DELETE FROM <table> WHERE _id = $1
del(f, ok) ==
    LET g == Log(f, "DELETE")
        id == ents[f.h].id IN
    IF ok
    THEN /\ db' = IF id \in Ids THEN [db EXCEPT ![id] = NoRow] ELSE db
         /\ stack' = SetTop([g EXCEPT !.pc = "evict"])
    ELSE /\ db' = db
         /\ stack' = SetTop(Fail(g))

Del ==
    /\ Running("delete", "del")
    /\ \E ok \in BOOLEAN : del(Top, ok)
    /\ done' = NoDone
    /\ lastPut' = NoPut
    /\ UNCHANGED <<ents, nextId, cache, conn, pgtx, openTx, got>>
    /\ UNCHANGED notEM

\* Delete without the Unstash after a successful del
DeleteNoUnstash(f) ==
    /\ cache' = cache
    /\ stack' = SetTop(Finish(Log(f, "evict")))

\* "if err = del(e, db); err == nil { mgr.Unstash(e) }"
DeleteUnstash(f) ==
    /\ cache' = CacheDel(cache, f.h)
    /\ stack' = SetTop(Finish(Log(f, "evict")))

Evict ==
    /\ Running("delete", "evict")
    /\ DeleteUnstash(Top)
    /\ done' = NoDone
    /\ lastPut' = NoPut
    /\ UNCHANGED <<ents, db, nextId, conn, pgtx, openTx, got>>
    /\ UNCHANGED notEM

\* ------------------------------------------------------------------------
\* EntityManager.Get and Query.Execute
\* ------------------------------------------------------------------------

\* Populate(e, values): the fields are set from the row, the populated flag
\* is set, and the entity is stashed, whatever the cache held for its id
Populate(e, row) == [e EXCEPT !.val = row, !.populated = TRUE]

\* Query.Execute for a query with one HasId condition: the SELECT, then per
\* row Scanners.Build: Make, Populate, Stash
Execute(f, ok) ==
    LET g == Log(f, "SELECT") IN
    IF ~ok
    THEN /\ UNCHANGED <<ents, cache>>
         /\ stack' = SetTop(Fail(g))
    ELSE IF db[f.id] = NoRow
    THEN /\ UNCHANGED <<ents, cache>>
         /\ stack' = SetTop(Finish(g))
    ELSE /\ FreeHandles # {}
         /\ ents' = [ents EXCEPT ![NewHandle] = Populate(MakeEntity(f.id), db[f.id])]
         /\ cache' = [cache EXCEPT ![f.id] = NewHandle]
         /\ stack' = SetTop(Finish([g EXCEPT !.ret = NewHandle]))

Select ==
    /\ stack # <<>>
    /\ Top.op \in {"get", "query"}
    /\ Top.pc = "select"
    /\ \E ok \in BOOLEAN : Execute(Top, ok)
    /\ done' = NoDone
    /\ lastPut' = IF Top.op = "get" THEN lastPut ELSE NoPut
    /\ UNCHANGED <<db, nextId, conn, pgtx, openTx, got>>
    /\ UNCHANGED notEM

\* a query on the kind with a HasId condition, executed by the application
\* (MakeQuery, AddCondition, Execute; By and ByColumnAndParent go this way)
Query ==
    /\ CanCall
    /\ \E id \in Ids : Call(Frame("query", NoHandle, id, {}, <<>>))
    /\ done' = NoDone
    /\ lastPut' = NoPut
    /\ UNCHANGED <<ents, db, nextId, cache, got>>
    /\ UNCHANGED notEM

GetResult(id, ret, err) ==
    [NoDone EXCEPT !.op = "get", !.id = id, !.ret = ret, !.err = err,
                   !.depth = Len(stack) + 1,
                   !.prev = IF id \in Ids THEN got[id] ELSE NoHandle]

\* EntityManager.Get(kind, id): an id <= 0 is an error; a cached entity is
\* returned as it is; otherwise the query is built and executed
Get ==
    /\ CanCall
    /\ \E id \in 0..MaxId :
          IF id <= 0
          THEN /\ done' = GetResult(id, NoHandle, TRUE)
               /\ UNCHANGED <<stack, got, conn, pgtx, openTx>>
          ELSE IF CacheHas(id)
          THEN /\ done' = GetResult(id, cache[id], FALSE)
               /\ got' = [got EXCEPT ![id] = cache[id]]
               /\ UNCHANGED <<stack, conn, pgtx, openTx>>
          ELSE /\ Call(Frame("get", NoHandle, id, {}, <<>>))
               /\ done' = NoDone
               /\ UNCHANGED got
    /\ UNCHANGED <<ents, db, nextId, cache, lastPut>>
    /\ UNCHANGED notEM

NextEM ==
    \/ Make \/ Modify \/ Unstash
    \/ TX \/ WorkReturn \/ Return
    \/ Put \/ OnPut \/ Update \/ OnInsert \/ Insert \/ AfterInsert
    \/ StashNew \/ AfterPut
    \/ Delete \/ OnDelete \/ Del \/ Evict
    \/ Get \/ Query \/ Select

\* ------------------------------------------------------------------------
\* Kind registry: getKindForType and createKind, called from goroutines
\* ------------------------------------------------------------------------

Threads == 1..NumThreads
Types == 1..NumTypes

\* every call that misses allocates one descriptor
Kinds == 1..(NumThreads * NumTypes)

\* a nil *Kind
NoKind == 0

InitKind ==
    /\ RegistryByType = [t \in Types |-> NoKind]
    /\ RegistryByKind = [t \in Types |-> NoKind]
    /\ kindType = [k \in Kinds |-> 0]
    /\ gpc = [g \in Threads |-> "idle"]
    /\ gtype = [g \in Threads |-> 1]
    /\ gkind = [g \in Threads |-> NoKind]
    /\ gret = [g \in Threads |-> [t \in Types |-> NoKind]]
    /\ fatal = FALSE

\* a goroutine calls getKindForType(t) (through GetKind, SetKind, Put, ...)
GetKindCall(g, t) ==
    /\ ~fatal
    /\ gpc[g] = "idle"
    /\ gpc' = [gpc EXCEPT ![g] = "lookup"]
    /\ gtype' = [gtype EXCEPT ![g] = t]
    /\ gkind' = [gkind EXCEPT ![g] = NoKind]
    /\ UNCHANGED <<RegistryByType, RegistryByKind, kindType, gret, fatal>>
    /\ UNCHANGED notKind

\* getKindForType: "kind, ok := RegistryByType[t]; if !ok { createKind }"
getKindForType(g) ==
    /\ ~fatal
    /\ gpc[g] = "lookup"
    /\ IF RegistryByType[gtype[g]] # NoKind
       THEN /\ gkind' = [gkind EXCEPT ![g] = RegistryByType[gtype[g]]]
            /\ gpc' = [gpc EXCEPT ![g] = "return"]
       ELSE /\ gkind' = gkind
            /\ gpc' = [gpc EXCEPT ![g] = "new"]
    /\ UNCHANGED <<RegistryByType, RegistryByKind, kindType, gtype, gret, fatal>>
    /\ UNCHANGED notKind

FreeKinds == {k \in Kinds : kindType[k] = 0}

\* createKind: "kind := new(Kind)" and the assignments to its fields
createKind(g) ==
    /\ ~fatal
    /\ gpc[g] = "new"
    /\ FreeKinds # {}
    /\ LET k == CHOOSE x \in FreeKinds : \A y \in FreeKinds : x <= y IN
          /\ kindType' = [kindType EXCEPT ![k] = gtype[g]]
          /\ gkind' = [gkind EXCEPT ![g] = k]
    /\ gpc' = [gpc EXCEPT ![g] = "byType"]
    /\ UNCHANGED <<RegistryByType, RegistryByKind, gtype, gret, fatal>>
    /\ UNCHANGED notKind

\* createKind: "RegistryByType[t] = kind"
SetByType(g) ==
    /\ ~fatal
    /\ gpc[g] = "byType"
    /\ RegistryByType' = [RegistryByType EXCEPT ![gtype[g]] = gkind[g]]
    /\ gpc' = [gpc EXCEPT ![g] = "byKind"]
    /\ UNCHANGED <<RegistryByKind, kindType, gtype, gkind, gret, fatal>>
    /\ UNCHANGED notKind

\* createKind: "RegistryByKind[kind.Kind] = kind"
SetByKind(g) ==
    /\ ~fatal
    /\ gpc[g] = "byKind"
    /\ RegistryByKind' = [RegistryByKind EXCEPT ![gtype[g]] = gkind[g]]
    /\ gpc' = [gpc EXCEPT ![g] = "fields"]
    /\ UNCHANGED <<RegistryByType, kindType, gtype, gkind, gret, fatal>>
    /\ UNCHANGED notKind

\* createKind: the loop over the fields and Reconcile, then "return kind"
ScanFields(g) ==
    /\ ~fatal
    /\ gpc[g] = "fields"
    /\ gpc' = [gpc EXCEPT ![g] = "return"]
    /\ UNCHANGED <<RegistryByType, RegistryByKind, kindType, gtype, gkind, gret, fatal>>
    /\ UNCHANGED notKind

\* getKindForType: "return kind"
KindReturn(g) ==
    /\ ~fatal
    /\ gpc[g] = "return"
    /\ gret' = [gret EXCEPT ![g][gtype[g]] = gkind[g]]
    /\ gpc' = [gpc EXCEPT ![g] = "idle"]
    /\ UNCHANGED <<RegistryByType, RegistryByKind, kindType, gtype, gkind, fatal>>
    /\ UNCHANGED notKind

\* the goroutine's next statement reads / writes one of the registry maps
ReadsMap(g) == gpc[g] = "lookup"

WritesMap(g) == gpc[g] \in {"byType", "byKind"}

\* The maps are plain Go maps used without a lock. When one goroutine's
\* write overlaps another's read or write of them the behaviour is
\* undefined; the outcomes are the interleavings above, or the runtime
\* detecting it and ending the program.
MapRace ==
    /\ ~fatal
    /\ \E g, h \in Threads :
          /\ g # h
          /\ WritesMap(g)
          /\ ReadsMap(h) \/ WritesMap(h)
    /\ fatal' = TRUE
    /\ UNCHANGED <<RegistryByType, RegistryByKind, kindType, gpc, gtype, gkind, gret>>
    /\ UNCHANGED notKind

NextKind ==
    \/ \E g \in Threads, t \in Types : GetKindCall(g, t)
    \/ \E g \in Threads : getKindForType(g)
    \/ \E g \in Threads : createKind(g)
    \/ \E g \in Threads : SetByType(g)
    \/ \E g \in Threads : SetByKind(g)
    \/ \E g \in Threads : ScanFields(g)
    \/ \E g \in Threads : KindReturn(g)
    \/ MapRace

\* ------------------------------------------------------------------------
\* Query: conditions, the "Query" template, tweak, SQL()
\* ------------------------------------------------------------------------

\* A condition is its type and the number n of values it carries:
\* Predicate and HasId carry one; HasParent and HasAncestor one, or none for
\* a zero key; HasMinValue, IsRoot and HasMaxValue none; References one per
\* non-zero key; SimpleCondition what the caller gave it, with as many
\* sentinels in its SQL.
Conds ==
    [variant : {"Predicate", "HasId"}, n : {1}]
    \cup [variant : {"HasParent", "HasAncestor"}, n : {0, 1}]
    \cup [variant : {"HasMinValue", "IsRoot", "HasMaxValue"}, n : {0}]
    \cup [variant : {"References", "SimpleCondition"}, n : 0..MaxRefs]

\* QueryTable: WithDerived, Conditions, and the number of kinds derived from
\* its Kind (len(Kind.DerivedKinds()))
QueryTable(wd, nd) == [WithDerived |-> wd, Derived |-> nd, Conditions |-> <<>>]

\* MakeQuery: no joins, no sub-queries, no conditions
MakeQuery(wd, nd) ==
    [root |-> QueryTable(wd, nd), Joins |-> <<>>, SubQueries |-> <<>>,
     QueryConditions |-> <<>>]

NoSQL == [built |-> FALSE, text |-> <<>>, values |-> <<>>]

InitQuery ==
    /\ query = MakeQuery(FALSE, 0)
    /\ sql = NoSQL

\* the sentinel of the j-th value of the condition at position i of the
\* conditions of table t of a part ("root", "join", "sub", "global")
Sentinel(part, t, i, j) ==
    [kw |-> "count", arg |-> -1, of |-> <<part, t, i, j>>]

\* a piece of SQL text without sentinels
Lit(txt) == [kw |-> "text", arg |-> -1, of |-> <<txt>>]

RECURSIVE CompoundWhereClause(_, _, _, _, _)
RECURSIVE SelectWhereClause(_)

\* Condition.WhereClause of each condition type, as the sentinels in it;
\* HasMaxValue embeds query.SelectWhereClause(false)
WhereClause(c, q, part, t, i) ==
    IF c.variant = "HasMaxValue"
    THEN <<Lit("SELECT MAX")>> \o SelectWhereClause(q)
    ELSE [j \in 1..c.n |-> Sentinel(part, t, i, j)]

\* CompoundCondition.WhereClause: the conditions' clauses joined, from the
\* i-th on
CompoundWhereClause(cs, q, part, t, i) ==
    IF i > Len(cs) THEN <<>>
    ELSE WhereClause(cs[i], q, part, t, i) \o CompoundWhereClause(cs, q, part, t, i + 1)

\* Query.SelectWhereClause
SelectWhereClause(q) ==
    IF Len(q.QueryConditions) > 0
    THEN <<Lit("WHERE")>> \o CompoundWhereClause(q.QueryConditions, q, "global", 0, 1)
    ELSE <<>>

\* QueryTable.WhereClause
TableWhereClause(tbl, q, part, t) ==
    IF Len(tbl.Conditions) > 0
    THEN <<Lit("WHERE")>> \o CompoundWhereClause(tbl.Conditions, q, part, t, 1)
    ELSE <<>>

RECURSIVE Repeat(_, _)
Repeat(txt, n) == IF n = 0 THEN <<>> ELSE txt \o Repeat(txt, n - 1)

\* template "WithTable": the table's SELECT with its WHERE clause, and with
\* WithDerived one more SELECT with the same WHERE clause per derived kind
WithTable(tbl, q, part, t) ==
    <<Lit("SELECT")>> \o TableWhereClause(tbl, q, part, t)
    \o (IF tbl.WithDerived
        THEN Repeat(<<Lit("UNION ALL SELECT")>> \o TableWhereClause(tbl, q, part, t), tbl.Derived)
        ELSE <<>>)

RECURSIVE WithTables(_, _, _, _)
WithTables(tbls, q, part, t) ==
    IF t > Len(tbls) THEN <<>>
    ELSE WithTable(tbls[t], q, part, t) \o WithTables(tbls, q, part, t + 1)

\* the template "Query" executed on q: WITH root, joins, sub-queries, then
\* the SELECT with the query's own WHERE clause
querySQL(q) ==
    <<Lit("WITH")>> \o WithTable(q.root, q, "root", 0)
    \o WithTables(q.Joins, q, "join", 1)
    \o WithTables(q.SubQueries, q, "sub", 1)
    \o <<Lit("SELECT FROM")>> \o SelectWhereClause(q)
    \o <<Lit("ORDER BY")>>

IsSentinel(tok) == tok.kw \in {"count", "reset"}

\* SQLTemplate.tweak from the m-th token on: a sentinel with an argument sets
\* arg, which stays set; "reset" sets the counter to arg when arg >= 0;
\* "count" does the same, is replaced by "$ix" (kw "$", arg ix), and
\* increments the counter
RECURSIVE tweakFrom(_, _, _, _)
tweakFrom(txt, m, ix, arg) ==
    IF m > Len(txt) THEN <<>>
    ELSE IF ~IsSentinel(txt[m]) THEN <<txt[m]>> \o tweakFrom(txt, m + 1, ix, arg)
    ELSE LET a == IF txt[m].arg >= 0 THEN txt[m].arg ELSE arg
             n == IF a >= 0 THEN a ELSE ix
         IN IF txt[m].kw = "reset"
            THEN tweakFrom(txt, m + 1, n, a)
            ELSE <<[kw |-> "$", arg |-> n, of |-> txt[m].of]>> \o tweakFrom(txt, m + 1, n + 1, a)

tweak(txt) == tweakFrom(txt, 1, 1, -1)

\* Condition.Values of each condition type
Values(c, part, t, i) ==
    IF c.variant = "HasMaxValue" THEN <<>>
    ELSE [j \in 1..c.n |-> <<part, t, i, j>>]

\* CompoundCondition.Values, from the i-th condition on
RECURSIVE CompoundValues(_, _, _, _)
CompoundValues(cs, part, t, i) ==
    IF i > Len(cs) THEN <<>>
    ELSE Values(cs[i], part, t, i) \o CompoundValues(cs, part, t, i + 1)

\* SQL(): a table's values, once more per derived kind with WithDerived
DerivedValues(tbl, part, t) ==
    CompoundValues(tbl.Conditions, part, t, 1)
    \o (IF tbl.WithDerived
        THEN Repeat(CompoundValues(tbl.Conditions, part, t, 1), tbl.Derived)
        ELSE <<>>)

RECURSIVE JoinValues(_, _)
JoinValues(js, t) ==
    IF t > Len(js) THEN <<>>
    ELSE DerivedValues(js[t], "join", t) \o JoinValues(js, t + 1)

\* SQL(): "for _, sq := range query.SubQueries { values = sq.Conditions.Values(values) }"
RECURSIVE SubQueryValues(_, _)
SubQueryValues(sqs, t) ==
    IF t > Len(sqs) THEN <<>>
    ELSE CompoundValues(sqs[t].Conditions, "sub", t, 1) \o SubQueryValues(sqs, t + 1)

\* Query.SQL(): the text (SQLText: template, then tweak) and the values
SQL(q) ==
    [built |-> TRUE,
     text |-> tweak(querySQL(q)),
     values |-> DerivedValues(q.root, "root", 0)
                \o JoinValues(q.Joins, 1)
                \o SubQueryValues(q.SubQueries, 1)
                \o CompoundValues(q.QueryConditions, "global", 0, 1)]

RECURSIVE SumConds(_, _)
SumConds(tbls, t) == IF t > Len(tbls) THEN 0 ELSE Len(tbls[t].Conditions) + SumConds(tbls, t + 1)

\* conditions the query carries
NumConds(q) ==
    Len(q.root.Conditions) + SumConds(q.Joins, 1) + SumConds(q.SubQueries, 1)
    + Len(q.QueryConditions)

\* EntityManager.MakeQuery(kind), with the caller setting WithDerived
NewQuery ==
    /\ \E wd \in BOOLEAN, nd \in 0..MaxDerived : query' = MakeQuery(wd, nd)
    /\ sql' = NoSQL
    /\ UNCHANGED notQuery

\* QueryTable.AddCondition on the root table
AddCondition ==
    /\ NumConds(query) < MaxConds
    /\ \E c \in Conds : query' = [query EXCEPT !.root.Conditions = Append(@, c)]
    /\ sql' = NoSQL
    /\ UNCHANGED notQuery

\* Query.AddJoin
AddJoin ==
    /\ Len(query.Joins) < MaxTables
    /\ \E wd \in BOOLEAN, nd \in 0..MaxDerived :
          query' = [query EXCEPT !.Joins = Append(@, QueryTable(wd, nd))]
    /\ sql' = NoSQL
    /\ UNCHANGED notQuery

\* AddCondition on a join that is to be added (the Join is passed by value)
AddJoinCondition ==
    /\ NumConds(query) < MaxConds
    /\ \E t \in 1..Len(query.Joins), c \in Conds :
          query' = [query EXCEPT !.Joins[t].Conditions = Append(@, c)]
    /\ sql' = NoSQL
    /\ UNCHANGED notQuery

\* Query.AddSubQuery
AddSubQuery ==
    /\ Len(query.SubQueries) < MaxTables
    /\ \E wd \in BOOLEAN, nd \in 0..MaxDerived :
          query' = [query EXCEPT !.SubQueries = Append(@, QueryTable(wd, nd))]
    /\ sql' = NoSQL
    /\ UNCHANGED notQuery

\* AddCondition on a sub-query that is to be added
AddSubQueryCondition ==
    /\ NumConds(query) < MaxConds
    /\ \E t \in 1..Len(query.SubQueries), c \in Conds :
          query' = [query EXCEPT !.SubQueries[t].Conditions = Append(@, c)]
    /\ sql' = NoSQL
    /\ UNCHANGED notQuery

\* Query.AddQueryCondition. A HasMaxValue here makes SelectWhereClause call
\* itself without end, so that SQL() never returns; it is left out.
AddQueryCondition ==
    /\ NumConds(query) < MaxConds
    /\ \E c \in Conds :
          /\ c.variant # "HasMaxValue"
          /\ query' = [query EXCEPT !.QueryConditions = Append(@, c)]
    /\ sql' = NoSQL
    /\ UNCHANGED notQuery

\* Query.SQL() is called (by Execute)
CallSQL ==
    /\ ~sql.built
    /\ sql' = SQL(query)
    /\ query' = query
    /\ UNCHANGED notQuery

NextQuery ==
    \/ NewQuery \/ AddCondition \/ AddJoin \/ AddJoinCondition
    \/ AddSubQuery \/ AddSubQueryCondition \/ AddQueryCondition \/ CallSQL

\* ------------------------------------------------------------------------
\* Query: joins, aggregates, GroupBy, and the rows Execute builds
\* ------------------------------------------------------------------------

\* Join types: Inner, and Outer / Full / Left which are all "LEFT"
JoinTypes == {"INNER", "LEFT"}

\* a QueryTable as far as grouping goes: the GroupBy field, the number of
\* Aggregates; for a Join also its JoinType and nth, which records that it
\* was the nth join handed to AddJoin
XTable(gb, aggs, jt, nth) ==
    [GroupBy |-> gb, Aggregates |-> aggs, JoinType |-> jt, nth |-> nth]

\* the Query: its own QueryTable, Joins, and the number of AddJoin calls
XQuery == [root |-> XTable(FALSE, 0, "INNER", 0), Joins |-> <<>>, added |-> 0]

NoXRes == [op |-> "none", err |-> FALSE, panic |-> FALSE, rows |-> <<>>]

InitExec ==
    /\ xq = XQuery
    /\ xres = NoXRes

\* the tables of the query: 0 is the query's own table, i > 0 is Joins[i]
XTables(q) == 0..Len(q.Joins)

TableOf(q, t) == IF t = 0 THEN q.root ELSE q.Joins[t]

\* Query.GroupedBy: the query's own table when its GroupBy is set, else the
\* first join whose GroupBy is set, else nil (-1)
GroupedBy(q) ==
    IF q.root.GroupBy THEN 0
    ELSE LET js == {j \in 1..Len(q.Joins) : q.Joins[j].GroupBy} IN
         IF js = {} THEN -1 ELSE CHOOSE j \in js : \A k \in js : j <= k

\* Query.IsGrouped
IsGrouped(q) == GroupedBy(q) # -1

\* QueryTable.IsAggregated
IsAggregated(q, t) ==
    TableOf(q, t).Aggregates > 0 /\ IsGrouped(q) /\ ~TableOf(q, t).GroupBy

\* MakeScanners: one EntityScanner for the grouped-by table when there is
\* one, else one for the query's table and one per join in Joins order
MakeScanners(q) ==
    IF GroupedBy(q) # -1
    THEN <<GroupedBy(q)>>
    ELSE <<0>> \o [j \in 1..Len(q.Joins) |-> j]

\* what the KindScanner of a table's scanner can hold after rows.Scan: nil
\* (the "_kind" column was NULL, which only the right side of a LEFT join
\* produces), a kind deriving from the table's kind, or a kind that does not
ScannedKinds(q, t) ==
    {"derives", "other"} \cup
    (IF t > 0 /\ q.Joins[t].JoinType = "LEFT" THEN {"nil"} ELSE {})

\* the raw rows the database can deliver: per scanner, a scanned kind
RawRows(q) ==
    {r \in [1..Len(MakeScanners(q)) -> {"nil", "derives", "other"}] :
        \A i \in 1..Len(MakeScanners(q)) : r[i] \in ScannedKinds(q, MakeScanners(q)[i])}

\* the ZeroKey sentinel EntityScanner.Build returns for a nil kind
ZeroKey == [zero |-> TRUE, nth |-> -1]

\* EntityScanner.Build for a scanner of table t: ZeroKey for a nil kind,
\* else the entity made and populated for the table
EntityBuild(q, t, k) ==
    IF k = "nil" THEN ZeroKey ELSE [zero |-> FALSE, nth |-> TableOf(q, t).nth]

\* Scanners.Build: one entity per scanner, in the order of the scanners
ScannersBuild(q, raw) ==
    [i \in 1..Len(MakeScanners(q)) |-> EntityBuild(q, MakeScanners(q)[i], raw[i])]

\* Scanners.Build fails when a scanner's kind does not derive from its table's
BuildFails(raw) == \E i \in 1..Len(raw) : raw[i] = "other"

\* the rows before the first one whose Build fails
GoodPrefix(raws) ==
    LET bad == {i \in 1..Len(raws) : BuildFails(raws[i])} IN
    IF bad = {} THEN raws
    ELSE SubSeq(raws, 1, (CHOOSE i \in bad : \A k \in bad : i <= k) - 1)

\* Query.Execute: conn.Query, MakeScanners, then Scan and Build per row;
\* ret keeps the rows built before an error
QueryExecute ==
    /\ \E ok \in BOOLEAN, n \in 0..MaxRows :
         \E raws \in [1..n -> RawRows(xq)] :
            xres' = IF ~ok
                    THEN [op |-> "Execute", err |-> TRUE, panic |-> FALSE, rows |-> <<>>]
                    ELSE [op |-> "Execute",
                          err |-> (\E i \in 1..n : BuildFails(raws[i])),
                          panic |-> FALSE,
                          rows |-> [i \in 1..Len(GoodPrefix(raws)) |->
                                       ScannersBuild(xq, raws[i])]]
    /\ xq' = xq
    /\ UNCHANGED notExec

\* Query.AddJoin(join): the Join value is appended as the caller built it;
\* its GroupBy field and its Aggregates are whatever the caller put there
QueryAddJoin ==
    /\ Len(xq.Joins) < MaxJoins
    /\ xq.added < MaxAdded
    /\ \E gb \in BOOLEAN, aggs \in 0..MaxAggs, jt \in JoinTypes :
          xq' = [xq EXCEPT !.Joins = Append(@, XTable(gb, aggs, jt, xq.added + 1)),
                           !.added = @ + 1]
    /\ xres' = NoXRes
    /\ UNCHANGED notExec

\* the joins left by RemoveJoin of the join at ix: the last join is moved
\* into its place and the slice shortened
removeJoin(js, ix) ==
    LET moved == IF ix < Len(js) THEN [js EXCEPT ![ix] = js[Len(js)]] ELSE js IN
    SubSeq(moved, 1, Len(js) - 1)

\* Query.RemoveJoin(alias), for the alias of the join at ix
RemoveJoin ==
    /\ \E ix \in 1..Len(xq.Joins) : xq' = [xq EXCEPT !.Joins = removeJoin(@, ix)]
    /\ xres' = NoXRes
    /\ UNCHANGED notExec

\* QueryTable.AddAggregate on the query's table or on a join: panics on a
\* table whose GroupBy is set
AddAggregate ==
    /\ \E t \in XTables(xq) :
          IF TableOf(xq, t).GroupBy
          THEN /\ xres' = [op |-> "AddAggregate", err |-> FALSE, panic |-> TRUE, rows |-> <<>>]
               /\ xq' = xq
          ELSE /\ TableOf(xq, t).Aggregates < MaxAggs
               /\ xq' = IF t = 0 THEN [xq EXCEPT !.root.Aggregates = @ + 1]
                                 ELSE [xq EXCEPT !.Joins[t].Aggregates = @ + 1]
               /\ xres' = NoXRes
    /\ UNCHANGED notExec

\* the caller assigns the GroupBy field of the query's table or of a join
SetGroupBy ==
    /\ \E t \in XTables(xq), gb \in BOOLEAN :
          /\ TableOf(xq, t).GroupBy # gb
          /\ xq' = IF t = 0 THEN [xq EXCEPT !.root.GroupBy = gb]
                            ELSE [xq EXCEPT !.Joins[t].GroupBy = gb]
    /\ xres' = NoXRes
    /\ UNCHANGED notExec

NextExec ==
    \/ QueryAddJoin \/ RemoveJoin \/ AddAggregate \/ SetGroupBy \/ QueryExecute

\* ------------------------------------------------------------------------
\* Key: CreateKey, Chain, ParseKey
\* ------------------------------------------------------------------------

\* Strings are sequences of one-character strings. The names of the
\* registered kinds: lower-cased package path "." type name
KeyKinds == {<<"a">>, <<"p", ".", "b">>}

\* the Idents a key level can carry
KeyIds == -1..MaxKeyId

\* ZeroKey = &Key{parent: nil, kind: nil, Ident: 0}: no levels. A Key is the
\* sequence of its levels, leaf first; a level whose kind is nil has the
\* empty kind name.
CreateKey(parent, kind, id) == <<[kind |-> kind, id |-> id]>> \o parent

\* the levels Key.Chain walks: from the leaf up to the first key that is nil
\* or zero (Key.IsZero: kind == nil)
Levels(k) ==
    LET zs == {i \in 1..Len(k) : k[i].kind = <<>>} IN
    IF zs = {} THEN k ELSE SubSeq(k, 1, (CHOOSE i \in zs : \A j \in zs : i <= j) - 1)

RECURSIVE FormatInt(_)
\* fmt's %d
FormatInt(n) ==
    LET digits == <<"0", "1", "2", "3", "4", "5", "6", "7", "8", "9">> IN
    IF n < 0 THEN <<"-">> \o FormatInt(-n)
    ELSE IF n < 10 THEN <<digits[n + 1]>>
    ELSE FormatInt(n \div 10) \o <<digits[(n % 10) + 1]>>

RECURSIVE Join(_, _)
\* strings.Join
Join(strs, sep) ==
    IF strs = <<>> THEN <<>>
    ELSE IF Len(strs) = 1 THEN strs[1]
    ELSE strs[1] \o sep \o Join(Tail(strs), sep)

\* Key.String under %q for a non-zero key, and Key.Chain: the quoted
\* "(kind,id)" of every level, joined by commas, in braces
Chain(k) ==
    LET quoted(l) == <<"\"", "(">> \o l.kind \o <<",">> \o FormatInt(l.id) \o <<")", "\"">> IN
    <<"{">> \o Join([i \in 1..Len(Levels(k)) |-> quoted(Levels(k)[i])], <<",">>) \o <<"}">>

RECURSIVE Split(_, _)
\* strings.Split(s, sep) for a one-character sep
Split(str, sep) ==
    LET at == {i \in 1..Len(str) : str[i] = sep} IN
    IF at = {} THEN <<str>>
    ELSE LET i == CHOOSE i \in at : \A j \in at : i <= j IN
         <<SubSeq(str, 1, i - 1)>> \o Split(SubSeq(str, i + 1, Len(str)), sep)

RECURSIVE ParseDigits(_, _, _)
\* the value of a string of digits in a base, -1 when a character is not a
\* digit of the base
ParseDigits(str, base, acc) ==
    LET digits == <<"0", "1", "2", "3", "4", "5", "6", "7", "8", "9">>
        ds == {d \in 1..base : digits[d] = Head(str)} IN
    IF str = <<>> THEN acc
    ELSE IF ds = {} THEN -1
    ELSE ParseDigits(Tail(str), base, acc * base + (CHOOSE d \in ds : TRUE) - 1)

\* strconv.ParseInt(s, 0, 0): optional sign; base 0 reads a leading "0" as
\* the octal prefix. Result: ok and the value.
ParseInt(str) ==
    LET neg == str # <<>> /\ Head(str) = "-"
        body == IF str # <<>> /\ Head(str) \in {"-", "+"} THEN Tail(str) ELSE str
        octal == Len(body) > 1 /\ Head(body) = "0"
        v == IF octal THEN ParseDigits(Tail(body), 8, 0) ELSE ParseDigits(body, 10, 0) IN
    IF body = <<>> \/ v = -1 THEN [ok |-> FALSE, val |-> 0]
    ELSE [ok |-> TRUE, val |-> IF neg THEN -v ELSE v]

RECURSIVE buildFrom(_, _, _)
\* the loop of buildKeyChain at pair i (0-based) with ret so far: an empty
\* kind resets ret to ZeroKey; an unknown kind or a bad id is an error
buildFrom(strs, i, ret) ==
    IF i < 0 THEN [err |-> FALSE, key |-> ret]
    ELSE LET k == strs[i * 2 + 1]
             id == ParseInt(strs[i * 2 + 2]) IN
         IF k = <<>> THEN buildFrom(strs, i - 1, <<>>)
         ELSE IF k \notin KeyKinds \/ ~id.ok THEN [err |-> TRUE, key |-> ret]
         ELSE buildFrom(strs, i - 1, CreateKey(ret, k, id.val))

\* buildKeyChain walking the pairs from the first to the last
buildKeyChainForward(strs) ==
    IF Len(strs) = 0 \/ (Len(strs) \div 2) * 2 # Len(strs)
    THEN [err |-> TRUE, key |-> <<>>]
    ELSE buildFrom([i \in 1..Len(strs) |->
                       strs[IF i % 2 = 1 THEN Len(strs) - i ELSE Len(strs) - i + 2]],
                   (Len(strs) \div 2) - 1, <<>>)

\* buildKeyChain(chain): pairs (kind, id), the last pair is the root; the
\* key is built from the root down to the leaf
buildKeyChain(strs) ==
    IF Len(strs) = 0 \/ (Len(strs) \div 2) * 2 # Len(strs)
    THEN [err |-> TRUE, key |-> <<>>]
    ELSE buildFrom(strs, (Len(strs) \div 2) - 1, <<>>)

\* ParseKey: drop braces, parentheses, blanks and quotes; the empty string
\* is ZeroKey; else split at the commas and build the chain
ParseKey(str) ==
    LET bare == SelectSeq(str, LAMBDA c : c \notin {"{", "}", "(", ")", " ", "\""}) IN
    IF bare = <<>> THEN [err |-> FALSE, key |-> <<>>]
    ELSE buildKeyChain(Split(bare, ","))

NoChain == <<"?">>
NoParsed == [done |-> FALSE, err |-> FALSE, key |-> <<>>]

InitKey ==
    /\ key = <<>>
    /\ chain = NoChain
    /\ parsed = NoParsed

\* a new key: CreateKey(parent, kind, id) on ZeroKey or on a key made
\* before, or key.SetKind(nil) / a key literal for a level without kind
KeyCreate ==
    /\ \E parent \in {<<>>, key}, kind \in KeyKinds \cup {<<>>}, id \in KeyIds :
          /\ Len(parent) < MaxKeyDepth
          /\ key' = CreateKey(parent, kind, id)
    /\ chain' = NoChain
    /\ parsed' = NoParsed
    /\ UNCHANGED notKey

\* key.Chain()
CallChain ==
    /\ chain = NoChain
    /\ chain' = Chain(key)
    /\ UNCHANGED <<key, parsed>>
    /\ UNCHANGED notKey

\* ParseKey(chain)
CallParseKey ==
    /\ chain # NoChain
    /\ ~parsed.done
    /\ parsed' = [done |-> TRUE, err |-> ParseKey(chain).err, key |-> ParseKey(chain).key]
    /\ UNCHANGED <<key, chain>>
    /\ UNCHANGED notKey

NextKey == KeyCreate \/ CallChain \/ CallParseKey

\* ------------------------------------------------------------------------
\* Kinds: createKind over the fields of a struct type, base kinds, columns
\* ------------------------------------------------------------------------

\* The struct types of the program. A type can hold fields of the struct
\* types before it only (Go has no recursive struct types).
Structs == {1, 2, 3}

\* the fields a struct type can declare: the embedded Key marker, an embedded
\* struct type, an exported field "A" of a basic type, and an exported field
\* "B" of a basic type with the tag columnname:"A"
KeyField == [f |-> "Key", type |-> 0, name |-> "Key", column |-> "Key"]
StructField(j) == [f |-> "struct", type |-> j, name |-> <<"T1", "T2", "T3">>[j], column |-> "-"]
BasicField(n, c) == [f |-> "basic", type |-> 0, name |-> n, column |-> c]

FieldsFor(t) ==
    {KeyField} \cup {StructField(j) : j \in {i \in Structs : i < t}}
    \cup {BasicField("A", "A"), BasicField("B", "A")}

NotRegistered ==
    [registered |-> FALSE, Columns |-> <<>>, BaseKind |-> 0, baseIndex |-> 0, derived |-> <<>>]

InitReg ==
    /\ decl = [t \in Structs |-> <<>>]
    /\ running = FALSE
    /\ reg = [t \in Structs |-> NotRegistered]
    /\ regres = [t |-> 0, out |-> "none", created |-> FALSE]

RECURSIVE KeyPaths(_, _, _)
\* the number of embedded Key markers at embedding depth d below type t
KeyPaths(D, t, d) ==
    LET at(i) == IF D[t][i].f = "Key" THEN (IF d = 1 THEN 1 ELSE 0)
                 ELSE IF D[t][i].f = "struct" /\ d > 1 THEN KeyPaths(D, D[t][i].type, d - 1)
                 ELSE 0
        sum[i \in 0..Len(D[t])] == IF i = 0 THEN 0 ELSE sum[i - 1] + at(i) IN
    sum[Len(D[t])]

\* t.Implements(persistable) || reflect.PtrTo(t).Implements(persistable):
\* the type has Key's methods when Key is promoted to it, which Go does when
\* exactly one Key is embedded at the shallowest depth at which there is one
Implements(D, t) ==
    \E d \in 1..Cardinality(Structs) :
        /\ KeyPaths(D, t, d) = 1
        /\ \A e \in 1..(d - 1) : KeyPaths(D, t, e) = 0

\* Kind.addColumn: refused (panic) when columnsByName holds the FieldName
addColumnOK(k, column) ==
    \A i \in 1..Len(k.Columns) : k.Columns[i].FieldName # column.FieldName

\* Kind.addColumn when the column is accepted
addColumn(k, column) == [k EXCEPT !.Columns = Append(@, column)]

RECURSIVE addBaseColumns(_, _, _, _)
\* the loop of SetBaseKind over base.Columns from position i: each column is
\* copied with index prepended to its Index; stops at the first refused one
addBaseColumns(k, cols, i, index) ==
    IF i > Len(cols) THEN [kind |-> k, panic |-> FALSE]
    ELSE LET derivedColumn == [cols[i] EXCEPT !.Index = <<index>> \o @] IN
         IF ~addColumnOK(k, derivedColumn) THEN [kind |-> k, panic |-> TRUE]
         ELSE addBaseColumns(addColumn(k, derivedColumn), cols, i + 1, index)

\* Kind.SetBaseKind(index, base, tags) on registry R for kind t: BaseKind and
\* baseIndex are set and base.AddDerivedKind(k) is called before the columns
\* of the base are copied
SetBaseKind(R, t, index, base) ==
    LET linked == [R[t] EXCEPT !.BaseKind = base, !.baseIndex = index]
        copied == addBaseColumns(linked, R[base].Columns, 1, index) IN
    [R |-> [R EXCEPT ![t] = copied.kind, ![base].derived = Append(@, t)],
     panic |-> copied.panic]

\* Kind.CreateColumn for the field at position i (0-based index i - 1)
CreateColumn(fld, i) ==
    [FieldName |-> fld.name, ColumnName |-> fld.column, Index |-> <<i - 1>>]

\* createKind refusing a base kind only when there is one already
baseRefusedNoKey(k, keyFound) == k.BaseKind # 0

\* createKind on a field whose struct type is a kind: refused (panic) when
\* the kind has a base kind already or Key was found before
baseRefused(k, keyFound) == k.BaseKind # 0 \/ keyFound

RECURSIVE scanFields(_, _, _, _, _)
RECURSIVE createKindOf(_, _, _)

\* getKindForType(t): the registered kind, else createKind(t, nil).
\* Result: the registry, and "kind", "nil" or "panic"
kindForType(D, R, t) ==
    IF R[t].registered THEN [R |-> R, out |-> "kind"] ELSE createKindOf(D, R, t)

\* the loop of createKind over the fields of t from position i
scanFields(D, R, t, i, keyFound) ==
    IF i > Len(D[t]) THEN [R |-> R, out |-> "kind"]
    ELSE LET fld == D[t][i] IN
         CASE fld.f = "Key" ->
                IF R[t].BaseKind # 0 THEN [R |-> R, out |-> "panic"]
                ELSE scanFields(D, R, t, i + 1, TRUE)
           [] fld.f = "struct" ->
                LET sk == kindForType(D, R, fld.type) IN
                IF sk.out = "panic" THEN sk
                ELSE IF sk.out = "nil" THEN scanFields(D, sk.R, t, i + 1, keyFound)
                ELSE IF baseRefused(sk.R[t], keyFound) THEN [R |-> sk.R, out |-> "panic"]
                ELSE LET sb == SetBaseKind(sk.R, t, i - 1, fld.type) IN
                     IF sb.panic THEN [R |-> sb.R, out |-> "panic"]
                     ELSE scanFields(D, sb.R, t, i + 1, keyFound)
           [] OTHER ->
                IF ~addColumnOK(R[t], CreateColumn(fld, i)) THEN [R |-> R, out |-> "panic"]
                ELSE scanFields(D, [R EXCEPT ![t] = addColumn(@, CreateColumn(fld, i))],
                                t, i + 1, keyFound)

\* createKind(t, nil): nil for a type that is not Persistable; else the new
\* Kind is put in the registry and then the fields are scanned
createKindOf(D, R, t) ==
    IF ~Implements(D, t) THEN [R |-> R, out |-> "nil"]
    ELSE scanFields(D, [R EXCEPT ![t] = [NotRegistered EXCEPT !.registered = TRUE]],
                    t, 1, FALSE)

\* DerivesFrom looking at the kind and its own base kind only
DerivesFromDirect(R, k, base) == k = base \/ R[k].BaseKind = base

\* Kind.DerivesFrom(base): walks BaseKind from k
DerivesFrom(R, k, base) ==
    LET walk[n \in 0..Cardinality(Structs)] ==
            IF n = 0 THEN k ELSE IF walk[n - 1] = 0 THEN 0 ELSE R[walk[n - 1]].BaseKind IN
    \E n \in 0..Cardinality(Structs) : walk[n] # 0 /\ walk[n] = base

RECURSIVE derivedFrom(_, _, _, _)
\* the loop of DerivedKinds at kind current with the todo list and ret
derivedFrom(R, current, todo, ret) ==
    LET todo1 == todo \o R[current].derived
        ret1 == ret \o R[current].derived IN
    IF Len(todo1) > 0 THEN derivedFrom(R, Head(todo1), Tail(todo1), ret1) ELSE ret1

\* Kind.DerivedKinds()
DerivedKinds(R, k) == derivedFrom(R, k, <<>>, <<>>)

\* the program text: a field is appended to the declaration of a type
Declare ==
    /\ ~running
    /\ \E t \in Structs : \E fld \in FieldsFor(t) :
          /\ Len(decl[t]) < MaxFields
          /\ \A i \in 1..Len(decl[t]) : decl[t][i].name # fld.name
          /\ decl' = [decl EXCEPT ![t] = Append(@, fld)]
    /\ UNCHANGED <<running, reg, regres>>
    /\ UNCHANGED notReg

\* the program starts
Start ==
    /\ ~running
    /\ running' = TRUE
    /\ UNCHANGED <<decl, reg, regres>>
    /\ UNCHANGED notReg

\* GetKind / getKindForType called for a struct type. A panic ends the call;
\* the registry keeps what was written before it.
Register ==
    /\ running
    /\ \E t \in Structs :
          /\ reg' = kindForType(decl, reg, t).R
          /\ regres' = [t |-> t, out |-> kindForType(decl, reg, t).out,
                        created |-> ~reg[t].registered]
    /\ UNCHANGED <<decl, running>>
    /\ UNCHANGED notReg

NextReg == Declare \/ Start \/ Register

\* ------------------------------------------------------------------------
\* Schema reconciler: SQLTable, its statements against PostgreSQL,
\* Sync and Reconcile
\* ------------------------------------------------------------------------

\* One table "t" with the columns "a" and "b".  Column "a" is declared in
\* every shape; column "b" in one.  No primary key and no serial column is
\* declared, the table holds no rows, and Config.Reconcile is set.
TableName == "t"
ColNames == {"a", "b"}
SQLTypes == {"integer", "bigint"}
Defaults == {"", "42"}

SQLColumns ==
    { [Name |-> "a", SQLType |-> ty, Default |-> d, Nullable |-> n,
       Unique |-> u, Indexed |-> i] :
        ty \in SQLTypes, d \in Defaults, n \in BOOLEAN, u \in BOOLEAN,
        i \in BOOLEAN }
    \cup { [Name |-> "b", SQLType |-> "integer", Default |-> "",
            Nullable |-> FALSE, Unique |-> FALSE, Indexed |-> FALSE] }

\* the indexes handed to AddIndex: unnamed, on one column or on two
SQLIndexes ==
    { [Name |-> <<>>, Columns |-> cs, Unique |-> u] :
        cs \in {<<"a">>, <<"a", "b">>}, u \in BOOLEAN }

\* pg.makeTable: no columns, no indexes
makeTable == [Columns |-> <<>>, Indexes |-> <<>>]

\* columnsByName[name] as a position in the column list, 0 when absent
ColumnIx(cols, name) ==
    IF \E k \in 1..Len(cols) : cols[k].Name = name
    THEN CHOOSE k \in 1..Len(cols) : cols[k].Name = name
    ELSE 0

\* indexesByName holds the name
HasIndex(t, name) == \E k \in 1..Len(t.Indexes) : t.Indexes[k].Name = name

\* the name AddIndex gives an unnamed index: TableName_col1_col2, and the
\* names of a column's own index and of the index of its UNIQUE constraint
IndexName(columns) == <<TableName>> \o columns
ColumnIndexName(c) == <<TableName, c>>
ConstraintName(c) == <<TableName, c, "key">>

\* SQLTable.AddColumn: a duplicate name is refused, else the column is
\* appended
AddColumn(t, column) ==
    IF ColumnIx(t.Columns, column.Name) > 0 THEN t
    ELSE [t EXCEPT !.Columns = Append(@, column)]

\* SQLTable.AddIndex: refused when a column is missing; an index on one
\* column marks the column Indexed; an index on several columns is named,
\* appended, and makes its columns NOT NULL.  The duplicate check is made
\* on the name given, before the default name is chosen.
AddIndex(t, index) ==
    IF (index.Name # <<>> /\ HasIndex(t, index.Name))
       \/ Len(index.Columns) = 0
       \/ \E k \in 1..Len(index.Columns) :
              ColumnIx(t.Columns, index.Columns[k]) = 0
    THEN t
    ELSE IF Len(index.Columns) = 1
    THEN [t EXCEPT
            !.Columns[ColumnIx(t.Columns, index.Columns[1])].Indexed = TRUE]
    ELSE LET named == IF index.Name = <<>>
                      THEN [index EXCEPT !.Name = IndexName(index.Columns)]
                      ELSE index
         IN [Columns |->
                [k \in 1..Len(t.Columns) |->
                    IF \E j \in 1..Len(index.Columns) :
                           index.Columns[j] = t.Columns[k].Name
                    THEN [t.Columns[k] EXCEPT !.Nullable = FALSE]
                    ELSE t.Columns[k]],
             Indexes |-> Append(t.Indexes, named)]

\* The table in the database: whether it exists, its columns in ordinal
\* order, and its indexes (con: the index belongs to a UNIQUE constraint).
\* Statements go to the *sql.DB handle, not to the sql.Tx that runTX
\* opened on it, so each one is committed as it is executed.
NoPhys == [exists |-> FALSE, cols |-> <<>>, idx |-> {}, log |-> <<>>]

\* a statement is sent to the database: log lists the statements of the
\* Reconcile call that is running
Issue(p, verb, name) == [p EXCEPT !.log = Append(@, <<verb, name>>)]

Res(p, e) == [p |-> p, err |-> e]

\* CREATE [UNIQUE] INDEX name ON t (columns): an existing relation of that
\* name or a missing column is an error
createIndex(p0, name, columns, unique) ==
    LET p == Issue(p0, "CREATE INDEX", name) IN
    IF (\E i \in p.idx : i.name = name)
       \/ (\E k \in 1..Len(columns) : ColumnIx(p.cols, columns[k]) = 0)
    THEN Res(p, TRUE)
    ELSE Res([p EXCEPT !.idx = @ \cup
                {[name |-> name, columns |-> columns, unique |-> unique,
                  con |-> FALSE]}], FALSE)

\* DROP INDEX name: an error when there is none, or when a constraint
\* owns it
dropIndex(p0, name) ==
    LET p == Issue(p0, "DROP INDEX", name) IN
    IF \E i \in p.idx : i.name = name /\ ~i.con
    THEN Res([p EXCEPT !.idx = {i \in @ : i.name # name}], FALSE)
    ELSE Res(p, TRUE)

\* the column as the database stores it, with its UNIQUE constraint
PhysColumn(column) ==
    [Name |-> column.Name, SQLType |-> column.SQLType,
     Default |-> column.Default, Nullable |-> column.Nullable]

ConstraintIndex(c) ==
    [name |-> ConstraintName(c), columns |-> <<c>>, unique |-> TRUE,
     con |-> TRUE]

\* alterAddColumn: ALTER TABLE ADD COLUMN with NOT NULL, DEFAULT and
\* UNIQUE, then a plain CREATE INDEX for an Indexed column
alterAddColumn(p0, column) ==
    LET p == Issue(p0, "ADD COLUMN", <<column.Name>>) IN
    IF ColumnIx(p.cols, column.Name) > 0 THEN Res(p, TRUE)
    ELSE LET q == [p EXCEPT
                    !.cols = Append(@, PhysColumn(column)),
                    !.idx = IF column.Unique
                            THEN @ \cup {ConstraintIndex(column.Name)}
                            ELSE @]
         IN IF column.Indexed
            THEN createIndex(q, ColumnIndexName(column.Name),
                             <<column.Name>>, FALSE)
            ELSE Res(q, FALSE)

\* alterAddColumnIndex: CREATE [UNIQUE] INDEX t_c
alterAddColumnIndex(p, column) ==
    createIndex(p, ColumnIndexName(column.Name), <<column.Name>>,
                column.Unique)

\* alterDropColumn: for an Indexed column alterAddColumnIndex is called
\* first; then ALTER TABLE DROP COLUMN, which drops the indexes and
\* constraints the column is part of
alterDropColumn(p, column) ==
    LET r == IF column.Indexed THEN alterAddColumnIndex(p, column)
             ELSE Res(p, FALSE)
        q == Issue(r.p, "DROP COLUMN", <<column.Name>>)
    IN IF r.err THEN r
       ELSE IF ColumnIx(q.cols, column.Name) = 0 THEN Res(q, TRUE)
       ELSE Res([q EXCEPT
                   !.cols = SelectSeq(@, LAMBDA c : c.Name # column.Name),
                   !.idx = {i \in @ : \A k \in 1..Len(i.columns) :
                                          i.columns[k] # column.Name}],
                FALSE)

alterDropColumnIndex(p, c) == dropIndex(p, ColumnIndexName(c))

alterCreateIndex(p, index) ==
    createIndex(p, index.Name, index.Columns, index.Unique)

alterDropIndex(p, name) == dropIndex(p, name)

\* reconcileColumn: another type drops and adds the column and is done;
\* else the column's index is added or dropped, and one ALTER COLUMN
\* statement carries the change of default followed by the change of
\* nullability.  With both changes the statement reads
\* "SET DEFAULT d SET NOT NULL" (or the like), which PostgreSQL refuses.
reconcileColumn(p, newColumn, oldColumn) ==
    IF newColumn.SQLType # oldColumn.SQLType
    THEN LET r == alterDropColumn(p, newColumn)
         IN IF r.err THEN r ELSE alterAddColumn(r.p, newColumn)
    ELSE LET r == IF newColumn.Indexed /\ ~oldColumn.Indexed
                  THEN alterAddColumnIndex(p, newColumn)
                  ELSE IF ~newColumn.Indexed /\ oldColumn.Indexed
                  THEN alterDropColumnIndex(p, newColumn.Name)
                  ELSE Res(p, FALSE)
             newDefault == newColumn.Default # oldColumn.Default
             newNullable == newColumn.Nullable # oldColumn.Nullable
             k == ColumnIx(r.p.cols, newColumn.Name)
             q == Issue(r.p, "ALTER COLUMN", <<newColumn.Name>>)
         IN IF r.err THEN r
            ELSE IF newDefault /\ newNullable THEN Res(q, TRUE)
            ELSE IF (newDefault \/ newNullable) /\ k = 0 THEN Res(q, TRUE)
            ELSE IF newDefault \/ newNullable
            THEN Res([q EXCEPT !.cols[k].Default = newColumn.Default,
                                 !.cols[k].Nullable = newColumn.Nullable],
                     FALSE)
            ELSE r

\* a set of at most a few indexes as a list
RECURSIVE SetToSeq(_)
SetToSeq(S) ==
    IF S = {} THEN <<>>
    ELSE LET x == CHOOSE x \in S : TRUE IN <<x>> \o SetToSeq(S \ {x})

\* Sync: the description is emptied, and for an existing table refilled by
\* syncColumns (name, type, default, nullability, in ordinal order),
\* syncIndexes (an index on one column sets Unique when it is unique and
\* Indexed when not; an index on several is appended) and
\* syncConstraints (a UNIQUE constraint on one column sets Unique and
\* clears Indexed)
Sync(p) ==
    IF ~p.exists THEN makeTable
    ELSE [Columns |->
            [k \in 1..Len(p.cols) |->
                LET c == p.cols[k]
                    own == {i \in p.idx : i.columns = <<c.Name>>}
                IN [Name |-> c.Name, SQLType |-> c.SQLType,
                    Default |-> c.Default, Nullable |-> c.Nullable,
                    Unique |-> \E i \in own : i.unique,
                    Indexed |-> (\E i \in own : ~i.unique)
                                /\ ~(\E i \in own : i.con)]],
          Indexes |->
            SetToSeq({[Name |-> i.name, Columns |-> i.columns,
                       Unique |-> i.unique] :
                        i \in {j \in p.idx : Len(j.columns) > 1}})]

\* the CreateTable template, executed as one statement list: the columns
\* with DEFAULT, NOT NULL and UNIQUE, an index per Indexed column, and the
\* indexes on several columns
RECURSIVE createIndexes(_, _, _)
createIndexes(r, indexes, k) ==
    IF r.err \/ k > Len(indexes) THEN r
    ELSE createIndexes(alterCreateIndex(r.p, indexes[k]), indexes, k + 1)

create(p, t) ==
    LET q == [exists |-> TRUE,
              cols |-> [k \in 1..Len(t.Columns) |-> PhysColumn(t.Columns[k])],
              idx |-> {ConstraintIndex(t.Columns[k].Name) :
                          k \in {j \in 1..Len(t.Columns) :
                                    t.Columns[j].Unique}}
                      \cup
                      {[name |-> ColumnIndexName(t.Columns[k].Name),
                        columns |-> <<t.Columns[k].Name>>,
                        unique |-> FALSE, con |-> FALSE] :
                          k \in {j \in 1..Len(t.Columns) :
                                    t.Columns[j].Indexed}},
              log |-> Append(p.log, <<"CREATE TABLE", <<TableName>>>>)]
        r == createIndexes(Res(q, FALSE), t.Indexes, 1)
    IN IF p.exists \/ r.err THEN Res([p EXCEPT !.log = r.p.log], TRUE) ELSE r

\* the four loops of Reconcile over the desired table t and the table cur
\* read by Sync at its start; the first error ends the call
RECURSIVE newColumns(_, _, _, _)
newColumns(r, t, cur, k) ==
    IF r.err \/ k > Len(t.Columns) THEN r
    ELSE LET newCol == t.Columns[k]
             old == ColumnIx(cur.Columns, newCol.Name)
         IN newColumns(IF old = 0 THEN alterAddColumn(r.p, newCol)
                       ELSE reconcileColumn(r.p, newCol, cur.Columns[old]),
                       t, cur, k + 1)

RECURSIVE oldColumns(_, _, _, _)
oldColumns(r, t, cur, k) ==
    IF r.err \/ k > Len(cur.Columns) THEN r
    ELSE LET oldCol == cur.Columns[k]
         IN oldColumns(IF ColumnIx(t.Columns, oldCol.Name) = 0
                       THEN alterDropColumn(r.p, oldCol) ELSE r,
                       t, cur, k + 1)

RECURSIVE newIndexes(_, _, _, _)
newIndexes(r, t, cur, k) ==
    IF r.err \/ k > Len(t.Indexes) THEN r
    ELSE newIndexes(IF ~HasIndex(cur, t.Indexes[k].Name)
                    THEN alterCreateIndex(r.p, t.Indexes[k]) ELSE r,
                    t, cur, k + 1)

RECURSIVE oldIndexes(_, _, _, _)
oldIndexes(r, t, cur, k) ==
    IF r.err \/ k > Len(cur.Indexes) THEN r
    ELSE oldIndexes(IF ~HasIndex(t, cur.Indexes[k].Name)
                    THEN alterDropIndex(r.p, cur.Indexes[k].Name) ELSE r,
                    t, cur, k + 1)

\* SQLTable.Reconcile: a table that does not exist is created; an
\* existing one is read with Sync and brought to the desired columns and
\* indexes
Reconcile(p, t) ==
    IF ~p.exists THEN create(p, t)
    ELSE LET cur == Sync(p)
         IN oldIndexes(
              newIndexes(
                oldColumns(newColumns(Res(p, FALSE), t, cur, 1), t, cur, 1),
                t, cur, 1),
              t, cur, 1)

\* nothing read back yet
NoSync == [valid |-> FALSE, t |-> makeTable]

InitTable ==
    /\ phys = NoPhys
    /\ table = makeTable
    /\ readBack = NoSync
    /\ before = NoPhys
    /\ runs = 0
    /\ rerr = FALSE
    /\ stmts = <<>>

\* the application starts a new description of the table (before and
\* rerr describe the last Reconcile of the description at hand)
MakeTable ==
    /\ table # makeTable
    /\ table' = makeTable
    /\ runs' = 0
    /\ readBack' = NoSync
    /\ before' = phys
    /\ rerr' = FALSE
    /\ stmts' = <<>>
    /\ UNCHANGED phys
    /\ UNCHANGED notTable

TableAddColumn ==
    /\ \E column \in SQLColumns :
          /\ ColumnIx(table.Columns, column.Name) = 0
          /\ table' = AddColumn(table, column)
    /\ runs' = 0
    /\ readBack' = NoSync
    /\ before' = phys
    /\ rerr' = FALSE
    /\ stmts' = <<>>
    /\ UNCHANGED phys
    /\ UNCHANGED notTable

TableAddIndex ==
    /\ Len(table.Indexes) < MaxIndexes
    /\ \E index \in SQLIndexes :
          /\ table' = AddIndex(table, index)
          /\ table' # table
    /\ runs' = 0
    /\ readBack' = NoSync
    /\ before' = phys
    /\ rerr' = FALSE
    /\ stmts' = <<>>
    /\ UNCHANGED phys
    /\ UNCHANGED notTable

\* table.Reconcile()
TableReconcile ==
    /\ Len(table.Columns) > 0
    /\ runs < MaxRuns
    /\ LET r == Reconcile(phys, table)
       IN /\ phys' = [r.p EXCEPT !.log = <<>>]
          /\ rerr' = (rerr \/ r.err)
          /\ stmts' = r.p.log
    /\ before' = phys
    /\ runs' = runs + 1
    /\ readBack' = NoSync
    /\ UNCHANGED table
    /\ UNCHANGED notTable

\* current := pg.makeTable(TableName); current.Sync()
TableSync ==
    /\ readBack = NoSync
    /\ runs > 0
    /\ readBack' = [valid |-> TRUE, t |-> Sync(phys)]
    /\ UNCHANGED <<phys, table, before, runs, rerr, stmts>>
    /\ UNCHANGED notTable

NextTable ==
    MakeTable \/ TableAddColumn \/ TableAddIndex \/ TableReconcile
    \/ TableSync

\* ------------------------------------------------------------------------
\* The References condition: WhereClause, where and Values
\* ------------------------------------------------------------------------

\* keys as the condition sees them: the nil pointer, the zero key (no
\* kind), and keys of entities that have a kind
NilKey == -1
ZeroRef == 0
RefKeys == {NilKey, ZeroRef, 1, 2}

\* lists of at most MaxRefs elements of S
Lists(S) == UNION {[1..n -> S] : n \in 0..MaxRefs}

\* what the field References can hold: nothing, a *Key, a Persistable
\* (with the key returned by AsKey), a []*Key, a []Persistable (elements:
\* nil, or an entity with its key)
RefInputs ==
    {[type |-> "nil", keys |-> <<>>]}
    \cup {[type |-> "*Key", keys |-> <<k>>] : k \in RefKeys}
    \cup {[type |-> "Persistable", keys |-> <<k>>] :
             k \in RefKeys \ {NilKey}}
    \cup {[type |-> "[]*Key", keys |-> ks] : ks \in Lists(RefKeys)}
    \cup {[type |-> "[]Persistable", keys |-> ks] : ks \in Lists(RefKeys)}

\* Key.IsZero: false for the nil pointer, true for a key without kind
IsZero(k) == k = ZeroRef

\* the condition as constructed: the fields references and hasZero unset
MakeReferences(input, invert) ==
    [References |-> input, references |-> <<>>, isNil |-> TRUE,
     hasZero |-> FALSE, Invert |-> invert]

\* References.where: the clause by references == nil, hasZero and Invert,
\* with one placeholder per element of references
where(c) ==
    [form |-> IF c.isNil /\ ~c.Invert THEN "IS NULL"
              ELSE IF c.isNil THEN "IS NOT NULL"
              ELSE IF ~c.hasZero /\ ~c.Invert THEN "IN"
              ELSE IF ~c.hasZero THEN "NOT IN OR IS NULL"
              ELSE IF ~c.Invert THEN "IN OR IS NULL"
              ELSE "NOT IN AND IS NOT NULL",
     params |-> Len(c.references)]

\* the first part of References.WhereClause: references and hasZero are
\* computed from the field References, by its dynamic type
Normalize(c) ==
    LET ref == c.References.keys
        type == c.References.type
        some(ks) == [c EXCEPT !.references = ks, !.isNil = (ks = <<>>)]
    IN  IF type = "nil"
        THEN [c EXCEPT !.references = <<>>, !.isNil = TRUE, !.hasZero = TRUE]
        ELSE IF type = "*Key"
        THEN IF IsZero(ref[1]) \/ ref[1] = NilKey
             THEN [c EXCEPT !.references = <<>>, !.isNil = TRUE,
                            !.hasZero = TRUE]
             ELSE [c EXCEPT !.references = ref, !.isNil = FALSE,
                            !.hasZero = FALSE]
        ELSE IF type = "Persistable"
        THEN [c EXCEPT !.references = ref, !.isNil = FALSE,
                       !.hasZero = FALSE]
        ELSE IF type = "[]*Key"
        THEN [some(SelectSeq(ref, LAMBDA k : ~(IsZero(k) \/ k = NilKey)))
                EXCEPT !.hasZero =
                    \E i \in 1..Len(ref) : IsZero(ref[i]) \/ ref[i] = NilKey]
        ELSE IF Len(ref) > 0
        THEN [some(SelectSeq(ref, LAMBDA k : k # NilKey))
                EXCEPT !.hasZero = \E i \in 1..Len(ref) : ref[i] = NilKey]
        ELSE [c EXCEPT !.references = <<>>, !.isNil = TRUE]

\* References.Values: one value appended per element of references
ReferencesValues(c, values) ==
    IF c.isNil THEN values ELSE values \o c.references

NoClause == [form |-> "", params |-> 0]
NoValues == [called |-> FALSE, values |-> <<>>]

InitRef ==
    /\ rcond = MakeReferences([type |-> "nil", keys |-> <<>>], FALSE)
    /\ rclause = NoClause
    /\ rvalues = NoValues

\* a condition is constructed: References{Column, References, Invert}
NewReferences ==
    /\ \E input \in RefInputs, invert \in BOOLEAN :
          rcond' = MakeReferences(input, invert)
    /\ rclause' = NoClause
    /\ rvalues' = NoValues
    /\ UNCHANGED notRef

\* cond.WhereClause(query, queryConstraint)
CallWhereClause ==
    /\ rcond' = Normalize(rcond)
    /\ rclause' = where(Normalize(rcond))
    /\ UNCHANGED rvalues
    /\ UNCHANGED notRef

\* cond.Values(values), with an empty list passed in
CallValues ==
    /\ rvalues' = [called |-> TRUE, values |-> ReferencesValues(rcond, <<>>)]
    /\ UNCHANGED <<rcond, rclause>>
    /\ UNCHANGED notRef

NextRef == NewReferences \/ CallWhereClause \/ CallValues

\* ------------------------------------------------------------------------
\* EntityManager.Adopt
\* ------------------------------------------------------------------------

\* Parents are persisted root entities, parent p with the key (kind, p).
\* Children are entity objects of one kind with one column.
AdoptParents == 1..NumParents
AdoptChildren == 1..NumChildren
StoredIds == 1..NumChildren
NoParent == 0
NoStored == [parent |-> -1, val |-> -1]

\* mgr.New(kind, parent): id 0, not populated, the field at its zero value
NewChild(p) == [id |-> 0, parent |-> p, populated |-> FALSE, val |-> 0]

\* Key.Initialize(parent, id): parent and manager are taken over when a
\* parent is given, the id is assigned
Initialize(e, p, id) ==
    [e EXCEPT !.parent = IF p # NoParent THEN p ELSE @, !.id = id]

AdoptResult(s, err) == [s |-> s, err |-> err]

\* EntityManager.Put for a type without interceptors, as one call.
\* id > 0: update, which sets the kind's columns WHERE "_id" = id and
\* returns no error when no row matches.  Else insert, which writes
\* "_parent" and the columns, assigns the id returned and sets populated.
PutChild(s, c, ok) ==
    LET e == s.objs[c] IN
    IF ~ok THEN AdoptResult(s, TRUE)
    ELSE IF e.id > 0
    THEN AdoptResult(
           [s EXCEPT !.rows = IF e.id \in StoredIds /\ @[e.id] # NoStored
                              THEN [@ EXCEPT ![e.id].val = e.val] ELSE @],
           FALSE)
    ELSE AdoptResult(
           [s EXCEPT !.rows = [@ EXCEPT ![s.serial] =
                                  [parent |-> e.parent, val |-> e.val]],
                     !.objs = [@ EXCEPT ![c] =
                                  [Initialize(e, NoParent, s.serial)
                                     EXCEPT !.populated = TRUE]],
                     !.serial = @ + 1],
           FALSE)

\* EntityManager.Adopt(e, children): for each child Initialize(e,
\* child.Id()) and Put; the first error ends the loop
RECURSIVE Adopt(_, _, _, _, _)
Adopt(s, p, children, oks, k) ==
    IF k > Len(children) THEN AdoptResult(s, FALSE)
    ELSE LET c == children[k]
             t == [s EXCEPT !.objs[c] = Initialize(@, p, @.id)]
             r == PutChild(t, c, oks[k])
         IN IF r.err THEN r ELSE Adopt(r.s, p, children, oks, k + 1)

NoAdopt == [called |-> FALSE, parent |-> NoParent, children |-> <<>>,
            err |-> FALSE]

InitAdopt ==
    /\ fam = [objs |-> [c \in AdoptChildren |-> NewChild(NoParent)],
              rows |-> [i \in StoredIds |-> NoStored],
              serial |-> 1]
    /\ adopted = NoAdopt

\* the serial has an id left for every new entity among the children
IdsLeft(children) ==
    fam.serial - 1
      + Cardinality({k \in 1..Len(children) : fam.objs[children[k]].id = 0})
    <= NumChildren

\* the application drops an object and constructs a new one in its place
AdoptNew ==
    /\ \E c \in AdoptChildren, p \in AdoptParents \cup {NoParent} :
          /\ fam.objs[c] # NewChild(p)
          /\ fam' = [fam EXCEPT !.objs[c] = NewChild(p)]
    /\ adopted' = NoAdopt
    /\ UNCHANGED notAdopt

\* the application assigns the entity's field
AdoptModify ==
    /\ \E c \in AdoptChildren, v \in Vals :
          /\ fam.objs[c].val # v
          /\ fam' = [fam EXCEPT !.objs[c].val = v]
    /\ adopted' = NoAdopt
    /\ UNCHANGED notAdopt

\* mgr.Put(child)
AdoptPut ==
    /\ \E c \in AdoptChildren, ok \in BOOLEAN :
          /\ IdsLeft(<<c>>)
          /\ fam' = PutChild(fam, c, ok).s
    /\ adopted' = NoAdopt
    /\ UNCHANGED notAdopt

\* mgr.Adopt(parent, children) with one child or with all of them
AdoptCall ==
    \E p \in AdoptParents,
       children \in {<<c>> : c \in AdoptChildren}
                      \cup {[k \in AdoptChildren |-> k]} :
       \E oks \in [1..Len(children) -> BOOLEAN] :
          /\ IdsLeft(children)
          /\ LET r == Adopt(fam, p, children, oks, 1)
             IN /\ fam' = r.s
                /\ adopted' = [called |-> TRUE, parent |-> p,
                               children |-> children, err |-> r.err]
          /\ UNCHANGED notAdopt

NextAdopt == AdoptNew \/ AdoptModify \/ AdoptPut \/ AdoptCall

\* ------------------------------------------------------------------------
\* Query: the aliases of its joins
\* ------------------------------------------------------------------------

\* fmt.Sprintf("j%d", n)
DefaultAlias(n) == <<"j", n>>

\* the alias AddParentJoin gives its join
ParentAlias == <<"parent">>

\* a Join built without an Alias
NoAlias == <<>>

\* the alias Query.SQL gives the query's own table when it has none
RootAlias == <<"k">>

InitAlias ==
    /\ aliases = <<>>
    /\ refCols = 0

\* the Joins after Query.AddJoin(join), for the Alias of the join
addJoin(js, alias) ==
    Append(js, IF alias = NoAlias THEN DefaultAlias(Len(js)) ELSE alias)

\* the Joins after Query.AddReferenceJoins: one AddJoin without alias for
\* each of the n reference columns of the kind
RECURSIVE addReferenceJoins(_, _)
addReferenceJoins(js, n) ==
    IF n = 0 THEN js ELSE addReferenceJoins(addJoin(js, NoAlias), n - 1)

\* the first join with the alias, 0 when there is none
FirstWithAlias(js, alias) ==
    LET is == {i \in 1..Len(js) : js[i] = alias} IN
    IF is = {} THEN 0 ELSE CHOOSE i \in is : \A k \in is : i <= k

\* MakeQuery for a kind with n reference columns
AliasMakeQuery ==
    /\ \E n \in 0..MaxRefCols : refCols' = n
    /\ aliases' = <<>>
    /\ UNCHANGED notAlias

\* Query.AddJoin with a join that has no Alias
AddJoinNoAlias ==
    /\ Len(aliases) < MaxAliasJoins
    /\ aliases' = addJoin(aliases, NoAlias)
    /\ UNCHANGED <<refCols, notAlias>>

\* Query.AddParentJoin
AddParentJoin ==
    /\ Len(aliases) < MaxAliasJoins
    /\ aliases' = addJoin(aliases, ParentAlias)
    /\ UNCHANGED <<refCols, notAlias>>

\* Query.AddReferenceJoins
AddReferenceJoins ==
    /\ refCols > 0
    /\ Len(aliases) + refCols <= MaxAliasJoins
    /\ aliases' = addReferenceJoins(aliases, refCols)
    /\ UNCHANGED <<refCols, notAlias>>

\* Query.RemoveJoin(alias) for the alias of one of the joins: the first
\* join with that alias goes
RemoveJoinAlias ==
    /\ \E k \in 1..Len(aliases) :
          aliases' = removeJoin(aliases, FirstWithAlias(aliases, aliases[k]))
    /\ UNCHANGED <<refCols, notAlias>>

NextAlias ==
    \/ AliasMakeQuery \/ AddJoinNoAlias \/ AddParentJoin \/ AddReferenceJoins
    \/ RemoveJoinAlias

\* ------------------------------------------------------------------------
\* SQLTable with primary keys: AddColumn, AddIndex, Kind.Reconcile
\* ------------------------------------------------------------------------

\* column names the application uses, and the empty string
DescNames == {"a", "b"}
EmptyName == ""

\* an index without a Name
NoIndexName == <<>>

\* SQLColumn as far as AddColumn and AddIndex look at it
DescColumn(name, pk, nullable) ==
    [Name |-> name, Nullable |-> nullable, PrimaryKey |-> pk,
     Unique |-> FALSE, Indexed |-> FALSE]

\* the columns handed to AddColumn
DescColumns == {DescColumn(n, pk, TRUE) : n \in DescNames, pk \in BOOLEAN}

\* the column lists of the indexes handed to AddIndex
DescColumnLists ==
    {<<>>} \cup {<<n>> : n \in DescNames}
           \cup {<<n, o>> : n \in DescNames, o \in DescNames}

\* SQLIndex
DescIndex(name, columns, pk, unique) ==
    [Name |-> name, Columns |-> columns, PrimaryKey |-> pk, Unique |-> unique]

\* the indexes handed to AddIndex
DescIndexes ==
    {DescIndex(n, cs, pk, FALSE) :
        n \in {NoIndexName, <<"x">>}, cs \in DescColumnLists, pk \in BOOLEAN}

\* a column of a Kind: ColumnName, IsKey, Scoped, and whether it has a Formula
KindColumn(name, isKey, scoped, formula) ==
    [ColumnName |-> name, IsKey |-> isKey, Scoped |-> scoped, Formula |-> formula]

KindColumns ==
    {KindColumn(n, k, s, f) :
        n \in DescNames, k \in BOOLEAN, s \in BOOLEAN, f \in BOOLEAN}

\* the Columns of a Kind: distinct names, Scoped only on a key column
DescKinds ==
    {<<>>} \cup
    {cs \in UNION {[1..n -> KindColumns] : n \in 1..MaxKindColumns} :
        /\ \A i, j \in 1..Len(cs) : i # j => cs[i].ColumnName # cs[j].ColumnName
        /\ \A i \in 1..Len(cs) : cs[i].Scoped => cs[i].IsKey}

\* pg.makeTable
makeDesc == [Columns |-> <<>>, Indexes |-> <<>>]

NoDesc == [op |-> "none", err |-> FALSE, built |-> FALSE, reconciled |-> FALSE]

InitDesc ==
    /\ desc = makeDesc
    /\ dkind = <<>>
    /\ dres = NoDesc

DescRes(t, e) == [t |-> t, err |-> e]

\* columnsByName[name] + 1, 0 when the name is not in the map
columnsByName(t, name) ==
    LET is == {i \in 1..Len(t.Columns) : t.Columns[i].Name = name} IN
    IF is = {} THEN 0 ELSE CHOOSE i \in is : TRUE

\* SQLTable.AddColumn
tableAddColumn(t, column) ==
    IF columnsByName(t, column.Name) > 0 THEN DescRes(t, TRUE)
    ELSE IF column.PrimaryKey
            /\ \/ \E i \in 1..Len(t.Indexes) : t.Indexes[i].PrimaryKey
               \/ \E i \in 1..Len(t.Columns) : t.Columns[i].PrimaryKey
    THEN DescRes(t, TRUE)
    ELSE DescRes([t EXCEPT !.Columns = Append(@, column)], FALSE)

\* TableName + "_" + strings.Join(index.Columns, "_")
DefaultIndexName(columns) == <<"t">> \o columns

\* SQLTable.AddIndex
tableAddIndex(t, index) ==
    IF index.Name # NoIndexName
       /\ \E i \in 1..Len(t.Indexes) : t.Indexes[i].Name = index.Name
    THEN DescRes(t, TRUE)
    ELSE IF index.PrimaryKey /\ \E i \in 1..Len(t.Columns) : t.Columns[i].PrimaryKey
    THEN DescRes(t, TRUE)
    ELSE IF Len(index.Columns) = 0 THEN DescRes(t, TRUE)
    ELSE IF \E k \in 1..Len(index.Columns) : columnsByName(t, index.Columns[k]) = 0
    THEN DescRes(t, TRUE)
    ELSE IF Len(index.Columns) = 1
    THEN LET c == columnsByName(t, index.Columns[1]) IN
         IF index.PrimaryKey
         THEN DescRes([t EXCEPT !.Columns[c].Indexed = FALSE,
                                !.Columns[c].Unique = FALSE,
                                !.Columns[c].Nullable = FALSE,
                                !.Columns[c].PrimaryKey = TRUE], FALSE)
         ELSE DescRes([t EXCEPT !.Columns[c].Indexed = TRUE], FALSE)
    ELSE LET named == IF index.Name = NoIndexName
                      THEN [index EXCEPT !.Name = DefaultIndexName(index.Columns)]
                      ELSE index
         IN DescRes(
              [t EXCEPT !.Indexes = Append(@, named),
                        !.Columns = [c \in 1..Len(t.Columns) |->
                            IF \E k \in 1..Len(index.Columns) :
                                  index.Columns[k] = t.Columns[c].Name
                            THEN [t.Columns[c] EXCEPT !.Nullable = FALSE]
                            ELSE t.Columns[c]]],
              FALSE)

\* _idColumn, _parentColumn, _parentIndex
IdColumn == [DescColumn("_id", TRUE, FALSE) EXCEPT !.Unique = FALSE]
ParentColumn == DescColumn("_parent", FALSE, TRUE)
ParentIndex == DescIndex(NoIndexName, <<"_parent", "_id">>, FALSE, TRUE)

\* keyCols of Kind.Reconcile for a key column: make([]string, 2), then
\* "_parent" appended when the column is scoped, then the column name
keyCols(col) ==
    <<EmptyName, EmptyName>>
      \o (IF col.Scoped THEN <<"_parent">> ELSE <<>>) \o <<col.ColumnName>>

\* the loop of Kind.Reconcile over k.Columns, from column i on
RECURSIVE reconcileColumns(_, _, _)
reconcileColumns(r, k, i) ==
    IF r.err \/ i > Len(k) THEN r
    ELSE LET col == k[i]
             r1 == tableAddColumn(r.t, DescColumn(col.ColumnName, FALSE, FALSE))
             r2 == IF r1.err \/ ~col.IsKey THEN r1
                   ELSE tableAddIndex(r1.t, DescIndex(NoIndexName, keyCols(col), FALSE, TRUE))
         IN IF col.Formula THEN reconcileColumns(r, k, i + 1)
            ELSE reconcileColumns(r2, k, i + 1)

\* Kind.Reconcile up to the call of table.Reconcile: the description of the
\* kind's table is built when it has no "_id" column yet
kindReconcile(t, k) ==
    IF columnsByName(t, "_id") > 0 THEN DescRes(t, FALSE)
    ELSE LET r1 == tableAddColumn(t, IdColumn)
             r2 == IF r1.err THEN r1 ELSE tableAddColumn(r1.t, ParentColumn)
             r3 == IF r2.err THEN r2 ELSE tableAddIndex(r2.t, ParentIndex)
         IN reconcileColumns(r3, k, 1)

\* a Kind is made for a struct type: its table description is made on the
\* first k.SQLTable call
DescMake ==
    /\ \E k \in DescKinds : dkind' = k
    /\ desc' = makeDesc
    /\ dres' = NoDesc
    /\ UNCHANGED notDesc

\* table.AddColumn(column)
DescAddColumn ==
    /\ Len(desc.Columns) < MaxDescColumns
    /\ \E column \in DescColumns :
          LET r == tableAddColumn(desc, column)
          IN /\ desc' = r.t
             /\ dres' = [op |-> "AddColumn", err |-> r.err, built |-> FALSE,
                         reconciled |-> FALSE]
    /\ UNCHANGED <<dkind, notDesc>>

\* table.AddIndex(index)
DescAddIndex ==
    /\ Len(desc.Indexes) < MaxDescIndexes
    /\ \E index \in DescIndexes :
          LET r == tableAddIndex(desc, index)
          IN /\ desc' = r.t
             /\ dres' = [op |-> "AddIndex", err |-> r.err, built |-> FALSE,
                         reconciled |-> FALSE]
    /\ UNCHANGED <<dkind, notDesc>>

\* k.Reconcile(pg): the description is built, and handed to table.Reconcile
\* when building it returned no error
DescReconcile ==
    /\ LET r == kindReconcile(desc, dkind)
       IN /\ desc' = r.t
          /\ dres' = [op |-> "Reconcile", err |-> r.err,
                      built |-> (columnsByName(desc, "_id") = 0),
                      reconciled |-> ~r.err]
    /\ UNCHANGED <<dkind, notDesc>>

NextDesc == DescMake \/ DescAddColumn \/ DescAddIndex \/ DescReconcile

\* ------------------------------------------------------------------------
\* Scanners.Build: the reference fields of the root entity of a result row
\* ------------------------------------------------------------------------

\* the reference columns of the root kind, each with a join made by
\* AddReferenceJoins
RefFields == 1..NumRefFields

\* ids of referenced entities
WireIds == 1..MaxWireId

\* kinds a referenced entity can have: 0 is the kind the field declares,
\* d + 1 has d as its BaseKind
WireKinds == 0..MaxDerive

\* the value of a reference column in the row: the zero key, or kind and id
NullRef == [null |-> TRUE, kind |-> 0, id |-> 0]

RefValues ==
    {NullRef} \cup {[null |-> FALSE, kind |-> d, id |-> i] : d \in WireKinds, i \in WireIds}

\* one reference column of the row that is read: its value, whether the
\* entity it names has a row, and whether the column's name was set by a
\* columnname tag and differs from the field's name
WireInputs ==
    {c \in [value : RefValues, exists : BOOLEAN, renamed : BOOLEAN] :
        c.value.null => ~c.exists}

\* what a reference field points at: nothing, or the part of kind "part"
\* of an object; obj tells the object made by ReferenceScanner.Scan from
\* the one made by the join's EntityScanner
NilField == [obj |-> "nil", kind |-> 0, id |-> 0, part |-> 0]

Pointer(obj, kind, id, part) == [obj |-> obj, kind |-> kind, id |-> id, part |-> part]

\* the entity the ZeroKey is
ZeroEntity == [obj |-> "zero", kind |-> 0, id |-> 0, part |-> 0]

NoWire ==
    [called |-> FALSE, panic |-> FALSE,
     fields |-> [f \in RefFields |-> NilField],
     joined |-> [f \in RefFields |-> ZeroEntity]]

InitWire ==
    /\ wrow = [f \in RefFields |-> [value |-> NullRef, exists |-> FALSE, renamed |-> FALSE]]
    /\ wres = NoWire

\* ReferenceScanner.Scan: no value for the zero key, else an object made
\* for the kind and id of the key
ReferenceScan(v) ==
    IF v.null THEN NilField ELSE Pointer("scanned", v.kind, v.id, v.kind)

\* ReferenceConverter.SetValue panics in reflect's Set when the object is
\* not of the struct type the field points to
SetValuePanics(p) == p # NilField /\ p.part # 0

\* the entity the EntityScanner of the join builds: ZeroKey when the outer
\* join matched no row
JoinedEntity(c) ==
    IF c.value.null \/ ~c.exists THEN ZeroEntity
    ELSE Pointer("joined", c.value.kind, c.value.id, c.value.kind)

\* CastTo(e, kind) for the declared kind 0: ret.Kind() is the kind of the
\* whole object all along, so every turn of the loop takes the same field
\* of the same struct, the part of the BaseKind of e's kind
CastTo(e) ==
    IF e.kind = 0 THEN e ELSE [e EXCEPT !.part = e.kind - 1]

\* the loop of Scanners.Build over scanners.references, for one column:
\* kind.Column is asked for the column name and knows field names
Wire(c, field) ==
    LET ref == JoinedEntity(c) IN
    IF ref = ZeroEntity THEN field
    ELSE IF c.renamed THEN field
    ELSE CastTo(ref)

\* a row arrives from the database
WireRow ==
    /\ \E r \in [RefFields -> WireInputs] : wrow' = r
    /\ wres' = NoWire
    /\ UNCHANGED notWire

\* Scanners.Build
WireBuild ==
    /\ ~wres.called
    /\ LET scanned == [f \in RefFields |-> ReferenceScan(wrow[f].value)]
       IN IF \E f \in RefFields : SetValuePanics(scanned[f])
          THEN wres' = [NoWire EXCEPT !.called = TRUE, !.panic = TRUE]
          ELSE wres' = [called |-> TRUE, panic |-> FALSE,
                        fields |-> [f \in RefFields |-> Wire(wrow[f], scanned[f])],
                        joined |-> [f \in RefFields |-> JoinedEntity(wrow[f])]]
    /\ UNCHANGED <<wrow, notWire>>

NextWire == WireRow \/ WireBuild

\* the adapter: TX calls nested in each other, Delete as the manager's
\* operation running under TX, and the application's own GetConnection,
\* Close, Begin, Commit and Rollback between the calls
NextTX ==
    \/ GetConnection \/ Close \/ Begin \/ Commit
    \/ TX \/ WorkReturn \/ WorkPanic \/ Return
    \/ Make \/ Delete \/ OnDelete \/ Del \/ Evict

vars ==
  <<emVars, kindVars, queryVars, execVars, keyVars, regVars, tableVars,
    refVars, adoptVars, aliasVars, descVars, wireVars>>

Init ==
  /\ InitEM /\ InitKind /\ InitQuery /\ InitExec /\ InitKey /\ InitReg
  /\ InitTable /\ InitRef /\ InitAdopt /\ InitAlias /\ InitDesc /\ InitWire

Next == NextEM

Spec == Init /\ [][Next]_vars

SpecTX == Init /\ [][NextTX]_vars

SpecKind == Init /\ [][NextKind]_vars

SpecQuery == Init /\ [][NextQuery]_vars

SpecExec == Init /\ [][NextExec]_vars

SpecKey == Init /\ [][NextKey]_vars

SpecReg == Init /\ [][NextReg]_vars

SpecTable == Init /\ [][NextTable]_vars

SpecRef == Init /\ [][NextRef]_vars

SpecAdopt == Init /\ [][NextAdopt]_vars

SpecWire == Init /\ [][NextWire]_vars

SpecDesc == Init /\ [][NextDesc]_vars

SpecAlias == Init /\ [][NextAlias]_vars

TypeOK ==
    /\ openTx \in 0..1
    /\ Len(stack) <= MaxDepth

\* ------------------------------------------------------------------------
\* Properties of the entity manager (specification Spec)
\* ------------------------------------------------------------------------

\* a Get of the id of the entity whose Put has just succeeded
GetAfterPut ==
    /\ done.op = "get"
    /\ lastPut.h # NoHandle
    /\ done.id = lastPut.id

\* C1: when Put of an entity made by New (id = 0) succeeds, the entity has
\* an id > 0 and is populated; a Get of that id that follows (from the
\* cache, or from the database after Unstash) succeeds and returns an entity
\* whose persisted column equals the entity's.
C1_PutNewThenGet ==
    /\ (done.op = "put" /\ ~done.err /\ done.wasNew) =>
          (ents[done.h].id > 0 /\ ents[done.h].populated)
    /\ (GetAfterPut /\ lastPut.wasNew /\ ~done.err) =>
          /\ done.ret # NoHandle
          /\ ents[done.ret].val = ents[lastPut.h].val

\* the Get after the insert was answered from the database with another
\* object, and the column holds a value other than the zero value
C1_Witness ==
    /\ GetAfterPut /\ lastPut.wasNew /\ ~done.err
    /\ done.ret # NoHandle
    /\ done.ret # lastPut.h
    /\ ents[lastPut.h].val = 1
    /\ ents[lastPut.h].populated

\* C2: when Put of a populated entity with id > 0 succeeds, a Get of that id
\* that follows returns an entity whose persisted column equals the
\* entity's, through whichever object of that id the Put was made.
C2_GetAfterUpdate ==
    (GetAfterPut /\ ~lastPut.wasNew /\ ents[lastPut.h].populated
        /\ ~done.err /\ done.ret # NoHandle) =>
        ents[done.ret].val = ents[lastPut.h].val

\* C3: once Get(kind, id) has returned an object, a later Get(kind, id)
\* returns the same object, unless Delete or Unstash was called for the id
\* in between.
C3_SameHandle ==
    (done.op = "get" /\ ~done.err /\ done.prev # NoHandle) =>
        done.ret = done.prev

\* the events of a trace that are steps of the work function
TxEvents == {"BEGIN", "COMMIT", "ROLLBACK"}

IsStep(ev) == ev \notin TxEvents

Steps(tr) == SelectSeq(tr, IsStep)

IsPrefix(a, b) == Len(a) <= Len(b) /\ a = SubSeq(b, 1, Len(a))

\* the steps Put is to take, in order, for a type with the interceptors
\* icpt and an entity that is new or not
PutSteps(icpt, new) ==
    (IF "put" \in icpt THEN <<"OnPut">> ELSE <<>>)
    \o (IF new
        THEN (IF "insert" \in icpt THEN <<"OnInsert">> ELSE <<>>)
             \o <<"INSERT">>
             \o (IF "insert" \in icpt THEN <<"AfterInsert">> ELSE <<>>)
             \o <<"stash">>
        ELSE <<"UPDATE">>)
    \o (IF "put" \in icpt THEN <<"AfterPut">> ELSE <<>>)

\* C4: at every moment of a Put, the steps taken so far are an initial part
\* of: pre-put hook; UPDATE if id > 0, else pre-insert hook, INSERT,
\* post-insert hook, stash; post-put hook. While its work function runs one
\* transaction is active, and a work function that returned nil has taken
\* all the steps.
C4_PutOrder ==
    \A i \in 1..Len(stack) :
        LET f == stack[i] IN
        f.op = "put" =>
            /\ IsPrefix(Steps(f.trace), PutSteps(f.icpt, f.id <= 0))
            /\ (f.pc # "commit") => (pgtx /\ openTx = 1)
            /\ (f.pc = "commit" /\ ~f.err) =>
                  Steps(f.trace) = PutSteps(f.icpt, f.id <= 0)

\* a Put of a new entity of a type with both interceptors has run to the
\* end of its work function, in a transaction of its own
C4_Witness ==
    /\ stack # <<>>
    /\ Top.op = "put" /\ Top.pc = "commit" /\ ~Top.err
    /\ Top.icpt = {"put", "insert"}
    /\ Top.trace = <<"BEGIN", "OnPut", "OnInsert", "INSERT", "AfterInsert", "stash", "AfterPut">>

\* the steps Delete is to take for an entity with the given id
DeleteSteps(icpt, id) ==
    IF id > 0
    THEN (IF "delete" \in icpt THEN <<"OnDelete">> ELSE <<>>) \o <<"DELETE", "evict">>
    ELSE <<>>

\* C5: Delete of an entity with id > 0 runs the pre-delete hook, the DELETE
\* and the eviction in this order, and when its work function returned nil
\* the cache holds nothing for the id; Delete of an entity with id <= 0
\* takes no step and leaves the cache as it was.
C5_Delete ==
    done.op = "delete" =>
        /\ IsPrefix(Steps(done.trace), DeleteSteps(done.icpt, done.id))
        /\ (done.id > 0 /\ ~done.workErr /\ (done.owner \/ done.txActive)) =>
              /\ Steps(done.trace) = DeleteSteps(done.icpt, done.id)
              /\ cache[done.id] = NoHandle
        /\ (done.id <= 0) => done.cacheSame

\* a Delete with a pre-delete hook succeeded and took an entry out of the
\* cache
C5_Witness ==
    /\ done.op = "delete" /\ ~done.err /\ done.id > 0
    /\ "delete" \in done.icpt
    /\ ~done.cacheSame

\* C6: Put of an entity with id > 0 that is not populated returns an error
\* and issues no UPDATE.
C6_UpdateNeedsPopulated ==
    \A i \in 1..Len(stack) :
        LET f == stack[i] IN
        (f.op = "put" /\ f.id > 0 /\ ~ents[f.h].populated) =>
            /\ \A k \in 1..Len(f.trace) : f.trace[k] # "UPDATE"
            /\ (f.pc = "commit") => f.err

\* ------------------------------------------------------------------------
\* Properties of the adapter (specification SpecTX)
\* ------------------------------------------------------------------------

\* C7: a TX call made while a transaction is active issues no BEGIN, COMMIT
\* or ROLLBACK; one made while none is active issues BEGIN, and after the
\* work function COMMIT if that returned nil, ROLLBACK if it returned an
\* error. At most one transaction is open, and no call nested in another
\* TX call begins or ends one.
C7_Nesting ==
    /\ openTx \in 0..1
    /\ pgtx <=> (openTx = 1)
    /\ \A i \in 1..Len(stack) :
          /\ stack[i].txActive => \A k \in 1..Len(stack[i].trace) : IsStep(stack[i].trace[k])
          /\ (i > 1) => stack[i].txActive
          /\ (stack[i].pc # "commit") => pgtx
    /\ (done.op # "none" /\ done.op # "get") =>
          /\ done.txActive =>
                /\ \A k \in 1..Len(done.trace) : IsStep(done.trace[k])
                /\ pgtx
          /\ ~done.txActive =>
                /\ done.trace[1] = "BEGIN"
                /\ ~pgtx
                /\ done.owner =>
                      done.trace[Len(done.trace)] = (IF done.workErr THEN "ROLLBACK" ELSE "COMMIT")
                /\ ~done.owner => (done.err /\ Len(done.trace) = 1)
                /\ done.depth = 1

\* a TX call nested in a TX call has returned: the inner one issued
\* nothing, and the transaction of the outer one is still open
C7_Witness ==
    /\ done.op = "tx" /\ done.depth = 2 /\ done.txActive
    /\ done.trace = <<>>
    /\ stack[1].owner
    /\ openTx = 1

\* ------------------------------------------------------------------------
\* Properties of the kind registry (specification SpecKind)
\* ------------------------------------------------------------------------

KindsOf(t) == {k \in Kinds : kindType[k] = t}

\* C8: for each type at most one descriptor is ever created, every caller
\* that asked for the type was handed the same descriptor, and the two
\* registries never hold different descriptors for one type.
C8_OneKindPerType ==
    \A t \in Types :
        /\ Cardinality(KindsOf(t)) <= 1
        /\ \A g, h \in Threads :
              (gret[g][t] # NoKind /\ gret[h][t] # NoKind) => gret[g][t] = gret[h][t]
        /\ (RegistryByType[t] # NoKind /\ RegistryByKind[t] # NoKind) =>
              RegistryByType[t] = RegistryByKind[t]

\* ------------------------------------------------------------------------
\* Properties of the query builder (specification SpecQuery)
\* ------------------------------------------------------------------------

IsPlaceholder(tok) == tok.kw = "$"

\* the positional placeholders of a rendered text, in order
Placeholders(txt) == SelectSeq(txt, IsPlaceholder)

\* C9: the text SQL() returns has as many positional placeholders as the
\* parameter list returned with it has values.
C9_PlaceholderCount ==
    sql.built => Len(Placeholders(sql.text)) = Len(sql.values)

\* C10: in what SQL() returns, the k-th placeholder of the text is $k and
\* the k-th value of the parameter list is the value of the condition the
\* placeholder was rendered for.
C10_PlaceholderOrder ==
    sql.built =>
        LET ph == Placeholders(sql.text) IN
        \A k \in 1..Len(ph) :
            /\ ph[k].arg = k
            /\ k <= Len(sql.values)
            /\ sql.values[k] = ph[k].of

\* ------------------------------------------------------------------------
\* Properties of query execution (specification SpecExec)
\* ------------------------------------------------------------------------

\* the nth marks of the query's joins, in the order the joins were added
AddedOrder(q) ==
    LET ns == {q.Joins[j].nth : j \in 1..Len(q.Joins)} IN
    [i \in 1..Len(q.Joins) |->
        CHOOSE n \in ns : Cardinality({m \in ns : m < n}) = i - 1]

\* C11: executing a query with n joins and no GroupBy table yields rows of
\* exactly n+1 entities, the root's first and then one per join in the order
\* the joins were added, a join that matched nothing giving the zero key in
\* its slot; executing a query with a GroupBy table yields rows of exactly
\* one entity.
C11_RowShape ==
    (xres.op = "Execute") =>
        \A r \in 1..Len(xres.rows) :
            LET row == xres.rows[r] IN
            IF IsGrouped(xq)
            THEN Len(row) = 1
            ELSE /\ Len(row) = Len(xq.Joins) + 1
                 /\ row[1] = [zero |-> FALSE, nth |-> 0]
                 /\ \A i \in 1..Len(xq.Joins) :
                       row[i + 1] \in {ZeroKey, [zero |-> FALSE, nth |-> AddedOrder(xq)[i]]}

\* C20: whatever joins and aggregates were added and whatever tables were
\* marked GroupBy, in whatever order, a query that is executed has at most
\* one GroupBy table among its root and joins, and no GroupBy table carries
\* aggregates.
C20_OneGroupBy ==
    (xres.op = "Execute") =>
        /\ Cardinality({t \in XTables(xq) : TableOf(xq, t).GroupBy}) <= 1
        /\ \A t \in XTables(xq) : TableOf(xq, t).GroupBy => TableOf(xq, t).Aggregates = 0

\* ------------------------------------------------------------------------
\* Properties of keys (specification SpecKey)
\* ------------------------------------------------------------------------

\* C12: for every key (the zero key, a single-level key, a chain of any
\* depth), parsing the key's formatted chain yields an equal key: the same
\* depth, and the same kind and id at every level.
C12_ParseFormat ==
    parsed.done =>
        /\ ~parsed.err
        /\ Len(Levels(parsed.key)) = Len(Levels(key))
        /\ \A i \in 1..Len(Levels(key)) :
              /\ Levels(parsed.key)[i].kind = Levels(key)[i].kind
              /\ Levels(parsed.key)[i].id = Levels(key)[i].id

\* a chain of two levels with different kinds, a negative and a two-digit
\* id has been formatted and parsed
C12_Witness ==
    /\ parsed.done
    /\ Len(Levels(key)) = 2
    /\ key[1].kind # key[2].kind
    /\ key[1].id < 0
    /\ key[2].id >= 10

\* ------------------------------------------------------------------------
\* Properties of kinds (specification SpecReg)
\* ------------------------------------------------------------------------

\* createKind has just returned the kind of type t
JustCreated(t) == regres.t = t /\ regres.created /\ regres.out = "kind"

\* C13: for every registered kind K with base kind B, the first
\* len(B.Columns) columns of K are B's columns in B's order, each with its
\* index path prefixed by the index of the embedded base field in K; K's own
\* columns come after them, wherever the base field stands among K's fields.
C13_BaseColumnsFirst ==
    \A t \in Structs :
        (JustCreated(t) /\ reg[t].BaseKind # 0) =>
            LET K == reg[t]
                B == reg[reg[t].BaseKind] IN
            /\ Len(K.Columns) >= Len(B.Columns)
            /\ \A i \in 1..Len(B.Columns) :
                  K.Columns[i] = [B.Columns[i] EXCEPT !.Index = <<K.baseIndex>> \o @]

\* the kinds reachable from k by following base-kind links, k included
BaseClosure(R, k) ==
    CHOOSE S \in SUBSET Structs :
        /\ k \in S
        /\ \A x \in S : R[x].BaseKind # 0 => R[x].BaseKind \in S
        /\ \A S2 \in SUBSET Structs :
              (k \in S2 /\ \A x \in S2 : R[x].BaseKind # 0 => R[x].BaseKind \in S2) => S \subseteq S2

\* C14: K.DerivesFrom(B) is true exactly when B is K itself or is reachable
\* from K by following base-kind links, and every kind that K.DerivedKinds()
\* returns derives from K.
C14_DerivesFrom ==
    \A k \in Structs :
        reg[k].registered =>
            /\ \A b \in Structs :
                  reg[b].registered => (DerivesFrom(reg, k, b) <=> b \in BaseClosure(reg, k))
            /\ \A i \in 1..Len(DerivedKinds(reg, k)) :
                  DerivesFrom(reg, DerivedKinds(reg, k)[i], k)

\* a kind has a base kind that has a base kind itself, so that the kind at
\* the root has a direct and an indirect derived kind
C14_Witness ==
    \E k \in Structs :
        /\ reg[k].registered
        /\ reg[k].BaseKind # 0
        /\ reg[reg[k].BaseKind].BaseKind # 0
        /\ Len(DerivedKinds(reg, reg[reg[k].BaseKind].BaseKind)) = 2

\* the type embeds the Key marker; the number of its fields whose struct type
\* is a kind
HasKey(t) == \E i \in 1..Len(decl[t]) : decl[t][i].f = "Key"
NumBases(t) ==
    Cardinality({i \in 1..Len(decl[t]) :
                    decl[t][i].f = "struct" /\ Implements(decl, decl[t][i].type)})

C16_UniqueColumnNames ==
    \A t \in Structs :
        reg[t].registered =>
            \A i, j \in 1..Len(reg[t].Columns) :
                reg[t].Columns[i].ColumnName = reg[t].Columns[j].ColumnName => i = j

\* equals() of the table tests: as many columns and indexes, every column
\* of the one found by name in the other with the same fields, every index
\* found by name with the same uniqueness and columns
Equals(t1, t2) ==
    /\ Len(t1.Columns) = Len(t2.Columns)
    /\ Len(t1.Indexes) = Len(t2.Indexes)
    /\ \A k \in 1..Len(t1.Columns) :
          \E j \in 1..Len(t2.Columns) : t1.Columns[k] = t2.Columns[j]
    /\ \A k \in 1..Len(t1.Indexes) :
          \E j \in 1..Len(t2.Indexes) : t1.Indexes[k] = t2.Indexes[j]

\* a desired table that reads back as declared when it is created from
\* nothing: no column is both Unique and Indexed
ReadsBackWhenCreated(t) == Equals(Sync(create(NoPhys, t).p), t)

\* C17: after a Reconcile that returned no error, of a desired table
\* against an existing table that differed from it, the description Sync
\* reads back from the database equals the desired table.
C17_ReconcileReadsBack ==
    (/\ readBack.valid
     /\ runs = 1
     /\ ~rerr
     /\ before.exists
     /\ ReadsBackWhenCreated(table)
     /\ ~Equals(Sync(before), table))
    => Equals(readBack.t, table)

\* C18: a second Reconcile with the same desired table, after a first one
\* that returned no error, changes nothing in the database: no column,
\* default, nullability or index.
C18_ReconcileIdempotent ==
    (runs >= 2 /\ ~rerr) => phys = before


\* the input of a References condition as the non-zero keys in it, in
\* order, and whether it holds a zero (a zero key, a nil, or nothing)
NonZeroKeys(input) ==
    SelectSeq(input.keys, LAMBDA k : k # ZeroRef /\ k # NilKey)

HasZero(input) ==
    input.type = "nil"
    \/ \E i \in 1..Len(input.keys) : input.keys[i] \in {ZeroRef, NilKey}

ExpectedClause(input, invert) ==
    [form |-> IF NonZeroKeys(input) = <<>>
              THEN (IF invert THEN "IS NOT NULL" ELSE "IS NULL")
              ELSE IF ~HasZero(input)
              THEN (IF invert THEN "NOT IN OR IS NULL" ELSE "IN")
              ELSE (IF invert THEN "NOT IN AND IS NOT NULL"
                    ELSE "IN OR IS NULL"),
     params |-> Len(NonZeroKeys(input))]

\* C19: for every References condition, the clause WhereClause returns
\* is the one the rendering matrix gives for the non-zero keys and the
\* has-zero marker of the input, and Values appends one value per
\* non-zero key, in the order of the placeholders, in whatever order and
\* however often the two are called.
C19_References ==
    /\ rclause # NoClause
          => rclause = ExpectedClause(rcond.References, rcond.Invert)
    /\ rvalues.called => rvalues.values = NonZeroKeys(rcond.References)


\* ------------------------------------------------------------------------
\* Entity life cycle, transactions and failures (Spec, SpecTX)
\* ------------------------------------------------------------------------

\* C22: once a Delete of an entity has succeeded, no later Put and no
\* later Delete of that entity object returns without error.
C22_Tombstone ==
    (done.op \in {"put", "delete"} /\ done.wasTomb) => done.err

\* the INSERT of a Put was executed and returned the new id
Inserted(trace) ==
    \E i \in 1..(Len(trace) - 1) :
        trace[i] = "INSERT" /\ trace[i + 1] \in {"AfterInsert", "stash"}

\* C23: the transaction an outermost TX call opened is committed only when
\* the work function returned nil; when the work function returned an
\* error or panicked it is rolled back and not committed; and when the
\* call has ended no transaction is marked active on the connection.
C23_CommitOnlyOnSuccess ==
    (done.op = "tx" /\ done.owner) =>
        /\ "COMMIT" \in {done.trace[k] : k \in 1..Len(done.trace)}
              => (~done.workErr /\ ~done.panicked)
        /\ (done.workErr \/ done.panicked)
              => done.trace[Len(done.trace)] = "ROLLBACK"
        /\ ~pgtx

\* C24: when a Put of a new entity that opened its own transaction fails
\* after its INSERT was executed, the entity has id 0, is not populated,
\* and the cache holds no entry for it.
C24_FailedPutLeavesNew ==
    (/\ done.op = "put" /\ done.wasNew /\ done.owner
     /\ done.err /\ Inserted(done.trace))
    => /\ ents[done.h].id = 0
       /\ ~ents[done.h].populated
       /\ \A i \in Ids : cache[i] # done.h


\* C21: after Adopt(parent, children) returned nil every child, whether
\* it was new or persisted under another parent, has the parent as its
\* parent in memory, and its stored row has the parent as "_parent".
C21_Adopt ==
    (adopted.called /\ ~adopted.err) =>
        \A k \in 1..Len(adopted.children) :
            LET e == fam.objs[adopted.children[k]] IN
            /\ e.parent = adopted.parent
            /\ e.id \in StoredIds
            /\ fam.rows[e.id].parent = adopted.parent


\* C25: when the registration of a type that was not registered panics,
\* no kind for the type is in the registry afterwards and no kind lists
\* it among its derived kinds.
C25_FailedRegistration ==
    (regres.out = "panic" /\ regres.created) =>
        /\ ~reg[regres.t].registered
        /\ \A b \in Structs :
              \A i \in 1..Len(reg[b].derived) : reg[b].derived[i] # regres.t

\* the first column of the table that the description no longer has, when
\* Reconcile gets as far as removing it and it has an index of its own
RemovedIndexed ==
    IF runs >= 1 /\ before.exists
    THEN LET cur == Sync(before)
             r1 == newColumns(Res(before, FALSE), table, cur, 1)
         IN {k \in 1..Len(cur.Columns) :
                /\ ~r1.err
                /\ cur.Columns[k].Indexed
                /\ ColumnIx(table.Columns, cur.Columns[k].Name) = 0
                /\ \A j \in 1..(k - 1) :
                      ColumnIx(table.Columns, cur.Columns[j].Name) > 0}
    ELSE {}

\* C26: when Reconcile removes a column that the table has and the
\* description has not, and the column has an index of its own, that index is
\* dropped first and the column is dropped after it
C26_DropIndexThenColumn ==
    \A k \in RemovedIndexed :
        LET c == Sync(before).Columns[k]
        IN \E a, b \in 1..Len(stmts) :
              /\ a < b
              /\ stmts[a][1] = "DROP INDEX"
              /\ \E i \in before.idx :
                    i.columns = <<c.Name>> /\ stmts[a][2] = i.name
              /\ stmts[b] = <<"DROP COLUMN", <<c.Name>>>>

\* C29: whatever AddJoin, AddParentJoin, AddReferenceJoins and RemoveJoin
\* calls were made without an alias given by the caller, the joins of the
\* query have aliases that differ from each other and from the root alias
C29_DistinctAliases ==
    /\ \A i, j \in 1..Len(aliases) : i # j => aliases[i] # aliases[j]
    /\ \A i \in 1..Len(aliases) : aliases[i] # RootAlias

\* the primary keys a description defines: its primary-key columns and its
\* primary-key indexes
PrimaryKeys(t) ==
    Cardinality({i \in 1..Len(t.Columns) : t.Columns[i].PrimaryKey})
      + Cardinality({i \in 1..Len(t.Indexes) : t.Indexes[i].PrimaryKey})

\* C30: whatever AddColumn and AddIndex calls were made on a description,
\* accepted or refused, it defines at most one primary key: one primary-key
\* column or one primary-key index, not both and not two of either
C30_OnePrimaryKey == PrimaryKeys(desc) <= 1

\* the description has a unique index on the column list
HasUniqueIndex(t, cols) ==
    \/ \E i \in 1..Len(t.Indexes) :
          t.Indexes[i].Unique /\ t.Indexes[i].Columns = cols
    \/ /\ Len(cols) = 1
       /\ \E c \in 1..Len(t.Columns) :
             t.Columns[c].Name = cols[1] /\ t.Columns[c].Unique

\* C27: the description Kind.Reconcile builds for a kind has, for a key
\* column of the kind, a unique index on exactly that column, preceded by
\* "_parent" when the key is scoped
C27_KeyIndex ==
    (dres.op = "Reconcile" /\ dres.built) =>
        \A i \in 1..Len(dkind) :
            (dkind[i].IsKey /\ ~dkind[i].Formula) =>
                HasUniqueIndex(desc,
                    (IF dkind[i].Scoped THEN <<"_parent">> ELSE <<>>)
                       \o <<dkind[i].ColumnName>>)

\* C28: when a result row has been built, a reference field whose join
\* found no row is nil, and a reference field whose join found a row holds
\* the joined entity, cast to the kind the field declares
C28_ReferenceFields ==
    (wres.called /\ ~wres.panic) =>
        \A f \in RefFields :
            IF wres.joined[f] = ZeroEntity
            THEN wres.fields[f] = NilField
            ELSE wres.fields[f] = [wres.joined[f] EXCEPT !.part = 0]
====
